---- MODULE Spec2Model ----
(***************************************************************************)
(* A model of the SNS_Download core: the Instagram account pool            *)
(* (app/account_manager.py), the download engine (app/downloader.py), the  *)
(* router (app/downloader_router.py), the content probe                    *)
(* (app/media_analyzer.py) and the proxy strategy (app/instagram_proxy.py).*)
(*                                                                         *)
(* Time is counted in half hours: datetime.now() is the variable now, and  *)
(* timedelta(hours=1) is Hour.                                             *)
(***************************************************************************)
EXTENDS Integers, Sequences, FiniteSets, TLC

(* ----------------------------- bounds ---------------------------------- *)

\* The clock stops advancing at MaxTime.
MaxTime == 3

\* No account records more than MaxRequests requests.
MaxRequests == 4

(* ------------------------ program constants ---------------------------- *)

\* Python's None for the Optional[datetime] fields (times are >= 0).
None == -1

\* timedelta(hours=1), in half hours.
Hour == 2

\* "if self.failed_requests >= 3"
FailureThreshold == 3

\* The usernames the configuration may name, in the order of the list.
Pool == <<"A", "B">>

Usernames == {Pool[i] : i \in 1..Len(Pool)}

\* The list of accounts a configuration hands to InstagramAccountManager.
AccountLists == {SubSeq(Pool, 1, n) : n \in 0..Len(Pool)}

\* The threads that may be inside mark_account_failure at once.
NThreads == 3

Threads == 1..NThreads

\* No account selected / no such account.
NoAccount == "none"

\* An exception: its class, and the fragments its message holds.
Err(kind, msg) == [kind |-> kind, msg |-> msg]

NoErr == Err("none", {})

\* The analysis of a call that has made none.
NoAnalysis ==
    [media_type |-> "unknown", is_carousel |-> FALSE, item_count |-> 0,
     requires_login |-> FALSE]

\* The files of the shortcode's directory, by what follows "{date}_{shortcode}"
\* in their names: F("mp4") is {date}_{shortcode}.mp4, F("thumb") is
\* {date}_{shortcode}_thumb.jpg, F("metadata") is {shortcode}_metadata.json,
\* Item(k) is {date}_{shortcode}_{k}.{ext}.  The model follows one shortcode.
F(name) == <<name, 0>>

Item(k) == <<"item", k>>

NoFile == F("none")

\* One step of a download call: what was tried, how it ended, and the
\* account it ran with.
Step(step, res, account) == [step |-> step, res |-> res, account |-> account]

\* The result of a call that has not ended.
NoResult ==
    [paths |-> <<>>, thumb |-> NoFile, media_type |-> "none", err |-> NoErr,
     via |-> "none"]

\* No download call yet.
NoCall ==
    [pc |-> "idle", entry |-> "none", probe |-> [exc |-> "none", text |-> {}],
     analysis |-> NoAnalysis, trace |-> <<>>, avail |-> "unknown", result |-> NoResult]

\* No call before this one.
NoPrev == [pc |-> "idle", paths |-> <<>>]

\* No router and no downloader constructed.
NoDownloader ==
    [has_credentials |-> FALSE, has_auth |-> FALSE, current_account |-> NoAccount,
     instaloader |-> FALSE]

VARIABLES
    now,        \* datetime.now()
    accounts,   \* InstagramAccountManager.accounts: a sequence of InstagramAccount
    ev,         \* the last operation called on the pool, and what it returned
    ghost,      \* per username: the failures in a row, and the time of the last
    thr,        \* per thread inside mark_account_failure: its position and register
    inst,       \* the router's has_credentials, the downloader's has_auth and current_account
    files,      \* the files in settings.download_dir / shortcode
    call,       \* the download call in progress, or the last one that ended
    prev        \* how the call before that one ended

poolVars == <<now, accounts, ev, ghost>>

dlVars == <<inst, files, call, prev>>

\* What the operations on the pool called from outside leave alone.
nonPoolVars == <<thr, inst, files, call, prev>>

vars == <<now, accounts, ev, ghost, thr, inst, files, call, prev>>

(* ------------------------- InstagramAccount ---------------------------- *)

\* The dataclass as constructed: InstagramAccount(username=..., password=...).
InstagramAccount(u) ==
    [username |-> u, is_blocked |-> FALSE, blocked_until |-> None,
     total_requests |-> 0, failed_requests |-> 0, last_used |-> None]

\* is_available at time t, comparing with <= : a block lasts one instant longer.
is_available_late(acc, t) ==
    IF acc.is_blocked /\ acc.blocked_until # None
    THEN IF t <= acc.blocked_until
         THEN [ret |-> FALSE, acc |-> acc]
         ELSE [ret |-> TRUE,
               acc |-> [acc EXCEPT !.is_blocked = FALSE, !.blocked_until = None]]
    ELSE [ret |-> ~acc.is_blocked, acc |-> acc]

\* is_available that reports the expiry without clearing the block.
is_available_noclear(acc, t) ==
    IF acc.is_blocked /\ acc.blocked_until # None
    THEN [ret |-> ~(t < acc.blocked_until), acc |-> acc]
    ELSE [ret |-> ~acc.is_blocked, acc |-> acc]

\* is_available that clears the flag of an expired block and keeps its time.
is_available_flag_only(acc, t) ==
    IF acc.is_blocked /\ acc.blocked_until # None
    THEN IF t < acc.blocked_until
         THEN [ret |-> FALSE, acc |-> acc]
         ELSE [ret |-> TRUE, acc |-> [acc EXCEPT !.is_blocked = FALSE]]
    ELSE [ret |-> ~acc.is_blocked, acc |-> acc]

\* is_available that also forgets the failures when it clears an expired block.
is_available_reset(acc, t) ==
    IF acc.is_blocked /\ acc.blocked_until # None
    THEN IF t < acc.blocked_until
         THEN [ret |-> FALSE, acc |-> acc]
         ELSE [ret |-> TRUE,
               acc |-> [acc EXCEPT !.is_blocked = FALSE, !.blocked_until = None,
                                   !.failed_requests = 0]]
    ELSE [ret |-> ~acc.is_blocked, acc |-> acc]

\* InstagramAccount.is_available at time t: what it returns, and the account
\* after the call (an expired block is cleared as a side effect).
is_available(acc, t) ==
    IF acc.is_blocked /\ acc.blocked_until # None
    THEN IF t < acc.blocked_until
         THEN [ret |-> FALSE, acc |-> acc]
         ELSE [ret |-> TRUE,
               acc |-> [acc EXCEPT !.is_blocked = FALSE, !.blocked_until = None]]
    ELSE [ret |-> ~acc.is_blocked, acc |-> acc]

\* InstagramAccount.mark_success at time t.
mark_success(acc, t) ==
    [acc EXCEPT !.total_requests = @ + 1, !.last_used = t, !.failed_requests = 0]

\* mark_failure that blocks only after a fourth failure.
mark_failure_late(acc, t) ==
    LET a1 == [acc EXCEPT !.total_requests = @ + 1, !.failed_requests = @ + 1,
                          !.last_used = t]
    IN  IF a1.failed_requests > FailureThreshold
        THEN [a1 EXCEPT !.is_blocked = TRUE, !.blocked_until = t + Hour]
        ELSE a1

\* InstagramAccount.mark_failure at time t.
mark_failure(acc, t) ==
    LET a1 == [acc EXCEPT !.total_requests = @ + 1, !.failed_requests = @ + 1,
                          !.last_used = t]
    IN  IF a1.failed_requests >= FailureThreshold
        THEN [a1 EXCEPT !.is_blocked = TRUE, !.blocked_until = t + Hour]
        ELSE a1

(* ---------------------- InstagramAccountManager ------------------------ *)

\* __init__: one fresh InstagramAccount per configured entry, in order.
InstagramAccountManager(list) ==
    [i \in 1..Len(list) |-> InstagramAccount(list[i])]

\* The pool after is_available() has been called on every account (the list
\* comprehensions of get_random_account, get_least_used_account, get_stats
\* and the generator of has_available_accounts when no account is available).
Swept(accs, t) == [i \in 1..Len(accs) |-> is_available(accs[i], t).acc]

\* The comprehension without its filter: every account counts as available.
available_accounts_all(accs, t) == 1..Len(accs)

\* The indices of "[acc for acc in self.accounts if acc.is_available()]".
available_accounts(accs, t) ==
    {i \in 1..Len(accs) : is_available(accs[i], t).ret}

\* The index of the first account named u, 0 when there is none: the loop
\* "for account in self.accounts: if account.username == username".
IndexOf(accs, u) ==
    IF \E i \in 1..Len(accs) : accs[i].username = u
    THEN CHOOSE i \in 1..Len(accs) :
            /\ accs[i].username = u
            /\ \A j \in 1..(i - 1) : accs[j].username # u
    ELSE 0

\* min(available_accounts, key=total_requests) that takes the most used one.
least_used_most(accs, avail) ==
    CHOOSE i \in avail : \A j \in avail : accs[j].total_requests <= accs[i].total_requests

\* min(available_accounts, key=lambda acc: acc.total_requests): the first
\* account, in list order, with the smallest total_requests.
least_used(accs, avail) ==
    CHOOSE i \in avail :
        /\ \A j \in avail : accs[i].total_requests <= accs[j].total_requests
        /\ \A j \in avail : accs[j].total_requests = accs[i].total_requests => i <= j

\* mark_account_success(username) at time t.
mark_account_success(accs, u, t) ==
    LET i == IndexOf(accs, u)
    IN  IF i = 0 THEN accs ELSE [accs EXCEPT ![i] = mark_success(accs[i], t)]

\* mark_account_failure(username) that records nothing.
mark_account_failure_none(accs, u, t) == accs

\* mark_account_failure(username) at time t.
mark_account_failure(accs, u, t) ==
    LET i == IndexOf(accs, u)
    IN  IF i = 0 THEN accs ELSE [accs EXCEPT ![i] = mark_failure(accs[i], t)]

\* has_available_accounts() that always answers no.
has_available_accounts_never(accs, t) == [ret |-> FALSE, accs |-> accs]

\* has_available_accounts(): any() stops at the first available account, so
\* only the accounts up to it have been asked (and had an expired block cleared).
has_available_accounts(accs, t) ==
    LET avail == available_accounts(accs, t)
        first == IF avail = {} THEN Len(accs)
                 ELSE CHOOSE i \in avail : \A j \in avail : i <= j
    IN  [ret  |-> avail # {},
         accs |-> [i \in 1..Len(accs) |->
                      IF i <= first THEN is_available(accs[i], t).acc ELSE accs[i]]]

(* ------------------------------ ghost ---------------------------------- *)

\* The history the claims speak of, kept apart from the account's own fields:
\* how many mark_failure calls came in a row (streak), when the third of the
\* row came (third_at), and when the last failure that was the third or a
\* later one of its row came (struck_at: a mark_success ends the row, it
\* does not lift the block).
GhostInit == [u \in Usernames |-> [streak |-> 0, third_at |-> None, struck_at |-> None]]

GhostSuccess(g, u) ==
    IF u \in Usernames
    THEN [g EXCEPT ![u] = [streak |-> 0, third_at |-> None, struck_at |-> @.struck_at]]
    ELSE g

GhostFailure(g, u, t) ==
    IF u \in Usernames
    THEN [g EXCEPT ![u] = [streak |-> @.streak + 1,
                           third_at |-> IF @.streak + 1 = 3 THEN t ELSE @.third_at,
                           struck_at |-> IF @.streak + 1 >= 3 THEN t ELSE @.struck_at]]
    ELSE g

\* By the history alone: u is in its cool-down at time t.
CoolingDown(g, u, t) ==
    /\ g[u].struck_at # None
    /\ t < g[u].struck_at + Hour

(* ------------------------- pool operations ----------------------------- *)

PoolInit ==
    /\ now = 0
    /\ accounts \in {InstagramAccountManager(l) : l \in AccountLists}
    /\ ev = [op |-> "init"]
    /\ ghost = GhostInit
    /\ thr = [t \in Threads |-> [pc |-> "idle", reg |-> 0]]
    /\ inst = NoDownloader
    /\ files = {}
    /\ call = NoCall
    /\ prev = NoPrev

\* Time passes.
Tick ==
    /\ now < MaxTime
    /\ now' = now + 1
    /\ ev' = [op |-> "tick"]
    /\ UNCHANGED <<accounts, ghost>>
    /\ UNCHANGED nonPoolVars

\* A caller asks accounts[i].is_available().
IsAvailable(i) ==
    LET r == is_available(accounts[i], now)
    IN  /\ accounts' = [accounts EXCEPT ![i] = r.acc]
        /\ ev' = [op |-> "is_available", user |-> accounts[i].username, at |-> now,
                  ret |-> r.ret, changed |-> (r.acc # accounts[i])]
        /\ UNCHANGED <<now, ghost>>
        /\ UNCHANGED nonPoolVars

\* A caller records a success for username u.
MarkAccountSuccess(u) ==
    /\ \A i \in 1..Len(accounts) :
          accounts[i].username = u => accounts[i].total_requests < MaxRequests
    /\ accounts' = mark_account_success(accounts, u, now)
    /\ ghost' = IF IndexOf(accounts, u) # 0 THEN GhostSuccess(ghost, u) ELSE ghost
    /\ ev' = [op |-> "mark_account_success", user |-> u, at |-> now]
    /\ UNCHANGED now
    /\ UNCHANGED nonPoolVars

\* A caller records a failure for username u.
MarkAccountFailure(u) ==
    /\ \A i \in 1..Len(accounts) :
          accounts[i].username = u => accounts[i].total_requests < MaxRequests
    /\ accounts' = mark_account_failure(accounts, u, now)
    /\ ghost' = IF IndexOf(accounts, u) # 0 THEN GhostFailure(ghost, u, now) ELSE ghost
    /\ ev' = [op |-> "mark_account_failure", user |-> u, at |-> now]
    /\ UNCHANGED now
    /\ UNCHANGED nonPoolVars

\* get_random_account(): random.choice among the available accounts.
GetRandomAccount ==
    LET avail == available_accounts(accounts, now)
    IN  /\ accounts' = Swept(accounts, now)
        /\ \/ /\ avail = {}
              /\ ev' = [op |-> "get_random_account", at |-> now, ret |-> NoAccount]
           \/ \E i \in avail :
                 ev' = [op |-> "get_random_account", at |-> now,
                        ret |-> accounts[i].username]
        /\ UNCHANGED <<now, ghost>>
        /\ UNCHANGED nonPoolVars

\* get_least_used_account().
GetLeastUsedAccount ==
    LET avail == available_accounts(accounts, now)
    IN  /\ accounts' = Swept(accounts, now)
        /\ ev' = [op |-> "get_least_used_account", at |-> now,
                  ret |-> IF avail = {} THEN NoAccount
                          ELSE accounts[least_used(accounts, avail)].username,
                  min_total |-> IF avail = {} THEN None
                                ELSE accounts[least_used(accounts, avail)].total_requests]
        /\ UNCHANGED <<now, ghost>>
        /\ UNCHANGED nonPoolVars

\* has_available_accounts().
HasAvailableAccounts ==
    LET r == has_available_accounts(accounts, now)
    IN  /\ accounts' = r.accs
        /\ ev' = [op |-> "has_available_accounts", at |-> now, ret |-> r.ret]
        /\ UNCHANGED <<now, ghost>>
        /\ UNCHANGED nonPoolVars

PoolNext ==
    \/ Tick
    \/ \E i \in 1..Len(accounts) : IsAvailable(i)
    \/ \E u \in Usernames \cup {"nobody"} : MarkAccountSuccess(u)
    \/ \E u \in Usernames \cup {"nobody"} : MarkAccountFailure(u)
    \/ GetRandomAccount
    \/ GetLeastUsedAccount
    \/ HasAvailableAccounts

SpecPool == PoolInit /\ [][PoolNext]_vars

(* ------------------------------ errors --------------------------------- *)

\* The typed platform errors of app/exceptions.py.
TypedErrors ==
    {"PrivateAccountError", "ContentNotFoundError", "RateLimitExceededError",
     "InstagramAPIError"}

\* A library's error text, lowercased, as the set of the fragments the code
\* looks for that it holds.
ErrTexts == {{}, {"private"}, {"404"}, {"429"}, {"unable to extract"}, {"private", "404"}}

AllMethodsFailed == Err("DownloadFailedError", {"all download methods failed"})

(* --------------------------- content probe ----------------------------- *)

\* The entries a probed container may hold.
MaxEntries == 3

\* yt-dlp's info dict, as far as analyze() reads it.
ProbeInfos ==
    [playlist : BOOLEAN, entries : 0..MaxEntries, ext : {"mp4", "jpg", "absent"},
     vcodec : {"absent", "none", "h264"}, duration : {0, 1}]

NoInfo == [playlist |-> FALSE, entries |-> 0, ext |-> "absent", vcodec |-> "absent",
           duration |-> 0]

\* What ydl.extract_info() does in analyze(): returns an info dict, raises a
\* yt_dlp DownloadError with some text, or raises something else.
ProbeResponses ==
    {[exc |-> "none", text |-> {}, info |-> i] : i \in ProbeInfos}
    \cup {[exc |-> "DownloadError", text |-> t, info |-> NoInfo] : t \in ErrTexts}
    \cup {[exc |-> "other", text |-> {}, info |-> NoInfo]}

\* InstagramMediaAnalyzer._is_video_content
is_video_content(info) ==
    \/ info.ext \in {"mp4", "webm", "mov"}
    \/ info.vcodec \notin {"absent", "none"}
    \/ info.duration > 0

\* The except clauses of analyze(): the error raised for a DownloadError text.
analyze_error(text) ==
    IF text \cap {"private", "unavailable"} # {}
    THEN Err("PrivateAccountError", {"private or unavailable"})
    ELSE IF text \cap {"404", "not found"} # {}
    THEN Err("ContentNotFoundError", {"does not exist"})
    ELSE Err("InstagramAPIError", {"failed to analyze"})

\* analyze() that asks for a login only for carousels.
analyze_photo_free(resp) ==
    IF resp.exc = "DownloadError"
    THEN [ok |-> FALSE, err |-> analyze_error(resp.text), analysis |-> NoAnalysis]
    ELSE IF resp.exc = "other"
    THEN [ok |-> FALSE, err |-> Err("DownloadFailedError", {"analysis error"}),
          analysis |-> NoAnalysis]
    ELSE LET is_carousel == resp.info.playlist \/ resp.info.entries > 0
         IN  [ok |-> TRUE, err |-> NoErr,
              analysis |->
                [media_type |-> IF is_carousel THEN "carousel"
                                ELSE IF is_video_content(resp.info) THEN "video"
                                ELSE "photo",
                 is_carousel |-> is_carousel,
                 item_count |-> IF is_carousel THEN resp.info.entries ELSE 1,
                 requires_login |-> is_carousel]]

\* analyze() that lets a probe failure through as a video to be tried.
analyze_lenient(resp) ==
    IF resp.exc # "none"
    THEN [ok |-> TRUE, err |-> NoErr,
          analysis |-> [media_type |-> "video", is_carousel |-> FALSE,
                        item_count |-> 1, requires_login |-> FALSE]]
    ELSE analyze_photo_free(resp)

\* InstagramMediaAnalyzer.analyze, given what extract_info did.
analyze(resp) ==
    IF resp.exc = "DownloadError"
    THEN [ok |-> FALSE, err |-> analyze_error(resp.text), analysis |-> NoAnalysis]
    ELSE IF resp.exc = "other"
    THEN [ok |-> FALSE, err |-> Err("DownloadFailedError", {"analysis error"}),
          analysis |-> NoAnalysis]
    ELSE LET is_carousel == resp.info.playlist \/ resp.info.entries > 0
             is_video == is_video_content(resp.info)
         IN  [ok |-> TRUE, err |-> NoErr,
              analysis |->
                [media_type |-> IF is_carousel THEN "carousel"
                                ELSE IF is_video THEN "video" ELSE "photo",
                 is_carousel |-> is_carousel,
                 item_count |-> IF is_carousel THEN resp.info.entries ELSE 1,
                 requires_login |-> IF is_carousel THEN TRUE ELSE ~is_video]]

(* ------------------------------ router --------------------------------- *)

\* InstagramDownloaderRouter._get_credential_error_message, by the fragments
\* of the message it returns.
get_credential_error_message(media_type, is_carousel) ==
    IF is_carousel
    THEN {"carousel post", "configure Instagram credentials", "INSTAGRAM_USERNAME",
          "INSTAGRAM_PASSWORD"}
    ELSE IF media_type = "photo"
    THEN {"photo post", "configure Instagram credentials", "INSTAGRAM_USERNAME",
          "INSTAGRAM_PASSWORD"}
    ELSE {"requires Instagram authentication", "Configure credentials"}

\* The routing of InstagramDownloaderRouter.download that skips the
\* credentials test.
route_unchecked(analysis, has_credentials) ==
    IF analysis.requires_login
    THEN [next |-> "instaloader", err |-> NoErr]
    ELSE [next |-> "check_existing", err |-> NoErr]

\* The routing of InstagramDownloaderRouter.download after the analysis:
\* where the call goes next, and the error it raises when it goes nowhere.
route(analysis, has_credentials) ==
    IF analysis.requires_login
    THEN IF ~has_credentials
         THEN [next |-> "failed",
               err |-> Err("DownloadFailedError",
                           get_credential_error_message(analysis.media_type,
                                                        analysis.is_carousel))]
         ELSE [next |-> "instaloader", err |-> NoErr]
    ELSE [next |-> "check_existing", err |-> NoErr]


(* ------------------------------- files --------------------------------- *)

\* possible_extensions, in the order the code tries them.
PossibleExtensions == <<"mp4", "webm", "mov", "jpg", "jpeg", "png">>

\* The first of PossibleExtensions with a file in fs, 0 when there is none.
FirstExisting(fs) ==
    IF \E k \in 1..Len(PossibleExtensions) : F(PossibleExtensions[k]) \in fs
    THEN CHOOSE k \in 1..Len(PossibleExtensions) :
            /\ F(PossibleExtensions[k]) \in fs
            /\ \A j \in 1..(k - 1) : F(PossibleExtensions[j]) \notin fs
    ELSE 0

\* ReelsDownloader._check_existing_download: the first media file by
\* extension, and the thumbnail by the three thumbnail patterns.
check_existing_download(fs) ==
    LET k == FirstExisting(fs)
    IN  IF k = 0
        THEN [found |-> FALSE, media |-> NoFile, thumb |-> NoFile]
        ELSE [found |-> TRUE, media |-> F(PossibleExtensions[k]),
              thumb |-> IF F("thumb") \in fs THEN F("thumb")
                        ELSE IF F("thumb_jpeg") \in fs THEN F("thumb_jpeg")
                        ELSE IF F("webp") \in fs THEN F("webp")
                        ELSE NoFile]

(* ------------------- library strategy A (yt-dlp) ----------------------- *)

\* What yt-dlp and the thumbnail fetch do in one _download_via_ytdlp call:
\*   stage "info":     extract_info raises (exc: "DownloadError" with text, or "other")
\*   stage "download": ydl.download raises (exc, text likewise)
\*   stage "nofile":   ydl.download returns and has written no file
\*   stage "written":  ydl.download has written {date}_{shortcode}.{ext}
\* ext and vcodec are the info dict's; oversize: the written file is larger
\* than max_file_size_mb; thumb: the thumbnail is there and fetched; meta:
\* the text metadata is saved; pick: the file the "*{shortcode}*" glob lists
\* first.
YO(stage, exc, text, ext, oversize, vcodec, thumb, meta, pick) ==
    [stage |-> stage, exc |-> exc, text |-> text, ext |-> ext, oversize |-> oversize,
     vcodec |-> vcodec, thumb |-> thumb, meta |-> meta, pick |-> pick]

\* The except clauses of _download_via_ytdlp with the first two tests in the
\* other order.
ytdlp_error_swapped(text) ==
    IF text \cap {"404", "not found", "removed"} # {}
    THEN Err("ContentNotFoundError", {"does not exist"})
    ELSE IF text \cap {"private", "unavailable"} # {}
    THEN Err("PrivateAccountError", {"private or unavailable"})
    ELSE IF text \cap {"429", "too many requests", "rate limit"} # {}
    THEN Err("RateLimitExceededError", {"rate limit exceeded"})
    ELSE IF text \cap {"http error", "unable to extract"} # {}
    THEN Err("InstagramAPIError", {"changed their structure"})
    ELSE Err("DownloadFailedError", {"failed to download content"})

\* The except clauses of _download_via_ytdlp for a yt_dlp DownloadError.
ytdlp_error(text) ==
    IF text \cap {"private", "unavailable"} # {}
    THEN Err("PrivateAccountError", {"private or unavailable"})
    ELSE IF text \cap {"404", "not found", "removed"} # {}
    THEN Err("ContentNotFoundError", {"does not exist"})
    ELSE IF text \cap {"429", "too many requests", "rate limit"} # {}
    THEN Err("RateLimitExceededError", {"rate limit exceeded"})
    ELSE IF text \cap {"http error", "unable to extract"} # {}
    THEN Err("InstagramAPIError", {"changed their structure"})
    ELSE Err("DownloadFailedError", {"failed to download content"})

\* _download_media that leaves the oversized file where it is.
download_media_keep(fs, o) ==
    IF o.stage = "download"
    THEN [ok |-> FALSE, exc |-> o.exc, text |-> o.text, files |-> fs, media |-> NoFile,
          fallback |-> FALSE]
    ELSE LET fs1 == IF o.stage = "written" THEN fs \cup {F(o.ext)} ELSE fs
             k == FirstExisting(fs1)
             found == IF k # 0 THEN F(PossibleExtensions[k]) ELSE o.pick
             big == o.stage = "written" /\ o.oversize /\ found = F(o.ext)
         IN  IF k = 0 /\ fs1 = {}
             THEN [ok |-> FALSE, exc |-> "DownloadFailedError", text |-> {"not found"},
                   files |-> fs1, media |-> NoFile, fallback |-> FALSE]
             ELSE IF big
             THEN [ok |-> FALSE, exc |-> "DownloadFailedError", text |-> {"exceeds limit"},
                   files |-> fs1, media |-> NoFile, fallback |-> k = 0]
             ELSE [ok |-> TRUE, exc |-> "none", text |-> {}, files |-> fs1,
                   media |-> found, fallback |-> k = 0]

\* ReelsDownloader._download_media: the media file it returns, or the
\* exception that leaves it (exc "DownloadError" is yt-dlp's own).
download_media(fs, o) ==
    IF o.stage = "download"
    THEN [ok |-> FALSE, exc |-> o.exc, text |-> o.text, files |-> fs, media |-> NoFile,
          fallback |-> FALSE]
    ELSE LET fs1 == IF o.stage = "written" THEN fs \cup {F(o.ext)} ELSE fs
             k == FirstExisting(fs1)
             found == IF k # 0 THEN F(PossibleExtensions[k]) ELSE o.pick
             big == o.stage = "written" /\ o.oversize /\ found = F(o.ext)
         IN  IF k = 0 /\ fs1 = {}
             THEN [ok |-> FALSE, exc |-> "DownloadFailedError", text |-> {"not found"},
                   files |-> fs1, media |-> NoFile, fallback |-> FALSE]
             ELSE IF big
             THEN [ok |-> FALSE, exc |-> "DownloadFailedError", text |-> {"exceeds limit"},
                   files |-> fs1 \ {found}, media |-> NoFile, fallback |-> k = 0]
             ELSE [ok |-> TRUE, exc |-> "none", text |-> {}, files |-> fs1,
                   media |-> found, fallback |-> k = 0]

\* o is something the library can do with the files fs there: pick names a
\* file of the directory exactly when the glob fallback is what finds the file.
YtdlpFeasible(fs, o) ==
    LET fs1 == IF o.stage = "written" THEN fs \cup {F(o.ext)} ELSE fs
        fallback == o.stage \in {"written", "nofile"} /\ FirstExisting(fs1) = 0 /\ fs1 # {}
    IN  IF fallback THEN o.pick \in fs1 ELSE o.pick = NoFile

\* ReelsDownloader._download_via_ytdlp.
download_via_ytdlp(fs, o) ==
    IF o.stage = "info"
    THEN [ok |-> FALSE,
          err |-> IF o.exc = "DownloadError" THEN ytdlp_error(o.text)
                  ELSE Err("DownloadFailedError", {"unexpected error"}),
          files |-> fs, media |-> NoFile, thumb |-> NoFile]
    ELSE LET m == download_media(fs, o)
             is_video == o.ext \in {"mp4", "webm", "mov"} \/ o.vcodec # "none"
             thumb == is_video /\ o.thumb
         IN  IF ~m.ok
             THEN [ok |-> FALSE,
                   err |-> IF m.exc = "DownloadError" THEN ytdlp_error(m.text)
                           ELSE Err("DownloadFailedError", {"unexpected error"} \cup m.text),
                   files |-> m.files, media |-> NoFile, thumb |-> NoFile]
             ELSE [ok |-> TRUE, err |-> NoErr,
                   files |-> m.files \cup (IF thumb THEN {F("thumb")} ELSE {})
                                     \cup (IF o.meta THEN {F("metadata")} ELSE {}),
                   media |-> m.media,
                   thumb |-> IF thumb THEN F("thumb") ELSE NoFile]

(* ----------------------- proxy / embed strategy ------------------------ *)

\* What the network does in one _download_via_proxy call.  oembed, embed,
\* json: the sub-method returns data ("data", "urls"), returns None ("none")
\* or raises ContentNotFoundError ("raise"); main: the fragments the first
\* CDN URL holds; more: there is a second URL; cdn, cdn_thumb: download_media
\* succeeds ("ok"), raises before it opens the file ("http_error") or raises
\* while it writes it ("broken").
PO(oembed, embed, json, main, more, cdn, cdn_thumb) ==
    [oembed |-> oembed, embed |-> embed, json |-> json, main |-> main, more |-> more,
     cdn |-> cdn, cdn_thumb |-> cdn_thumb]

SubRes(x) == IF x = "raise" THEN "ContentNotFoundError" ELSE x

\* get_media_urls that asks every sub-method before it looks at an answer.
get_media_urls_all(o) ==
    LET t1 == <<Step("oembed", SubRes(o.oembed), NoAccount)>>
        t2 == Append(t1, Step("embed", SubRes(o.embed), NoAccount))
        t3 == Append(t2, Step("json", SubRes(o.json), NoAccount))
    IN  IF o.oembed = "data" THEN [ok |-> TRUE, has_urls |-> FALSE, tried |-> t3]
        ELSE IF o.embed = "urls" THEN [ok |-> TRUE, has_urls |-> TRUE, tried |-> t3]
        ELSE IF o.json = "data" THEN [ok |-> TRUE, has_urls |-> FALSE, tried |-> t3]
        ELSE [ok |-> FALSE, has_urls |-> FALSE, tried |-> t3]

\* InstagramProxyDownloader.get_media_urls: the sub-methods tried, in order,
\* and whether one returned data, with media_urls or without.
get_media_urls(o) ==
    LET t1 == <<Step("oembed", SubRes(o.oembed), NoAccount)>>
        t2 == Append(t1, Step("embed", SubRes(o.embed), NoAccount))
        t3 == Append(t2, Step("json", SubRes(o.json), NoAccount))
    IN  IF o.oembed = "data" THEN [ok |-> TRUE, has_urls |-> FALSE, tried |-> t1]
        ELSE IF o.embed = "urls" THEN [ok |-> TRUE, has_urls |-> TRUE, tried |-> t2]
        ELSE IF o.json = "data" THEN [ok |-> TRUE, has_urls |-> FALSE, tried |-> t3]
        ELSE [ok |-> FALSE, has_urls |-> FALSE, tried |-> t3]

\* _download_via_proxy that takes any answer of get_media_urls as a list of
\* media URLs.
download_via_proxy_any(fs, o) ==
    LET g == get_media_urls(o)
        ext == IF ".mp4" \in o.main THEN "mp4"
               ELSE IF "jpg" \in o.main THEN "jpg"
               ELSE IF ".png" \in o.main THEN "png"
               ELSE "jpg"
        t1 == Append(g.tried, Step("cdn", o.cdn, NoAccount))
        fs1 == IF o.cdn = "http_error" THEN fs ELSE fs \cup {F(ext)}
    IN  IF ~g.ok
        THEN [ok |-> FALSE, err |-> Err("InstagramAPIError", {"all proxy methods failed"}),
              files |-> fs, media |-> NoFile, thumb |-> NoFile, tried |-> g.tried]
        ELSE IF o.cdn # "ok"
        THEN [ok |-> FALSE, err |-> Err("RequestException", {"transport"}),
              files |-> fs1, media |-> NoFile, thumb |-> NoFile, tried |-> t1]
        ELSE [ok |-> TRUE, err |-> NoErr, files |-> fs1, media |-> F(ext),
              thumb |-> NoFile, tried |-> t1]

\* ReelsDownloader._download_via_proxy.
download_via_proxy(fs, o) ==
    LET g == get_media_urls(o)
        ext == IF ".mp4" \in o.main THEN "mp4"
               ELSE IF "jpg" \in o.main THEN "jpg"
               ELSE IF ".png" \in o.main THEN "png"
               ELSE "jpg"
        is_video == ".mp4" \in o.main
        t1 == Append(g.tried, Step("cdn", o.cdn, NoAccount))
        fs1 == IF o.cdn = "http_error" THEN fs ELSE fs \cup {F(ext)}
        want_thumb == o.more /\ is_video
        fs2 == IF want_thumb /\ o.cdn_thumb # "http_error" THEN fs1 \cup {F("thumb")} ELSE fs1
    IN  IF ~g.ok
        THEN [ok |-> FALSE, err |-> Err("InstagramAPIError", {"all proxy methods failed"}),
              files |-> fs, media |-> NoFile, thumb |-> NoFile, tried |-> g.tried]
        ELSE IF ~g.has_urls
        THEN [ok |-> FALSE, err |-> Err("DownloadFailedError", {"no media urls found"}),
              files |-> fs, media |-> NoFile, thumb |-> NoFile, tried |-> g.tried]
        ELSE IF o.cdn # "ok"
        THEN [ok |-> FALSE, err |-> Err("RequestException", {"transport"}),
              files |-> fs1, media |-> NoFile, thumb |-> NoFile, tried |-> t1]
        ELSE [ok |-> TRUE, err |-> NoErr, files |-> fs2, media |-> F(ext),
              thumb |-> IF want_thumb /\ o.cdn_thumb = "ok" THEN F("thumb") ELSE NoFile,
              tried |-> IF want_thumb
                        THEN Append(t1, Step("cdn_thumb", o.cdn_thumb, NoAccount))
                        ELSE t1]


(* -------------------- library strategy B (instaloader) ----------------- *)

\* The most media files the directory holds.
MaxItems == 4

\* What Instaloader does in one InstaloaderDownloader.download call: the
\* exception it raises (exc, with the fragments of a ConnectionException's
\* text), or the n media files download_post writes, the extension of the
\* first one, and the post's is_video and typename == 'GraphSidecar'.
\* login: how the login of the first use ended ("none": not the first use).
IO(exc, text, n, ext, is_video, is_carousel, login) ==
    [exc |-> exc, text |-> text, n |-> n, ext |-> ext, is_video |-> is_video,
     is_carousel |-> is_carousel, login |-> login]

\* The except clauses of InstaloaderDownloader.download.
instaloader_error(o) ==
    IF o.exc = "ProfileNotExistsException"
    THEN Err("ContentNotFoundError", {"does not exist"})
    ELSE IF o.exc = "PrivateProfileNotFollowedException"
    THEN Err("PrivateAccountError", {"private account"})
    ELSE IF o.exc = "TooManyRequestsException"
    THEN Err("RateLimitExceededError", {"rate limit exceeded"})
    ELSE IF o.exc = "ConnectionException"
    THEN IF o.text \cap {"401", "unauthorized"} # {}
         THEN Err("InstagramAPIError", {"authentication required or API changed"})
         ELSE IF o.text \cap {"404", "not found"} # {}
         THEN Err("ContentNotFoundError", {"does not exist"})
         ELSE Err("DownloadFailedError", {"connection error"})
    ELSE Err("DownloadFailedError", {"unexpected error"})

\* _find_media_files: every file with a media extension and no "_thumb".
find_media_files(fs) ==
    {f \in fs : f[1] = "item"
                \/ \E k \in 1..Len(PossibleExtensions) : f = F(PossibleExtensions[k])}

\* InstaloaderDownloader.download: the files found and renamed, oldest first.
instaloader_download(fs, o) ==
    LET old == find_media_files(fs)
        M == Cardinality(old) + o.n
        sole == IF o.n = 1 THEN F(o.ext)
                ELSE IF \E f \in old : f[1] # "item" THEN CHOOSE f \in old : f[1] # "item"
                ELSE F("jpg")
        fs1 == IF M = 1 THEN (fs \ old) \cup {sole}
               ELSE (fs \ old) \cup {Item(k) : k \in 1..M}
    IN  IF o.exc # "none"
        THEN [ok |-> FALSE, err |-> instaloader_error(o), files |-> fs, paths |-> <<>>,
              thumb |-> NoFile]
        ELSE IF M = 0
        THEN [ok |-> FALSE, err |-> Err("DownloadFailedError", {"unexpected error"}),
              files |-> fs, paths |-> <<>>, thumb |-> NoFile]
        ELSE [ok |-> TRUE, err |-> NoErr, files |-> fs1,
              paths |-> IF M = 1 THEN <<sole>> ELSE [k \in 1..M |-> Item(k)],
              thumb |-> IF o.is_video /\ ~o.is_carousel /\ F("thumb") \in fs
                        THEN F("thumb") ELSE NoFile]


(* --------------------------- pool claims ------------------------------- *)

\* The account named u, as the pool holds it now.
AccountOf(u) == accounts[IndexOf(accounts, u)]

\* C1: after exactly 3 consecutive mark_failure calls with no mark_success in
\* between, the account is blocked until the time of the third failure plus
\* one hour: is_available() returns false at every earlier time, and at or
\* after that time it returns true and leaves is_blocked false and
\* blocked_until null.
C1_BlockedForOneHour ==
    /\ (ev.op = "mark_account_failure" /\ ev.user \in Usernames
           /\ IndexOf(accounts, ev.user) # 0 /\ ghost[ev.user].streak = 3)
        => /\ AccountOf(ev.user).is_blocked
           /\ AccountOf(ev.user).blocked_until = ghost[ev.user].third_at + Hour
    /\ (ev.op = "is_available" /\ ghost[ev.user].streak = 3)
        => /\ ev.ret = (ev.at >= ghost[ev.user].third_at + Hour)
           /\ ev.ret => /\ AccountOf(ev.user).is_blocked = FALSE
                        /\ AccountOf(ev.user).blocked_until = None
           /\ ~ev.ret => ~ev.changed

\* C1's case: an is_available() call after three failures in a row and a full
\* hour returned true and cleared the block itself.
C1_Witness ==
    /\ ev.op = "is_available"
    /\ ghost[ev.user].streak = 3
    /\ ev.at >= ghost[ev.user].third_at + Hour
    /\ ev.ret
    /\ ev.changed

\* C2: get_random_account and get_least_used_account return only an account
\* that is not in its cool-down at the time of the call, and return None
\* exactly when every account of the pool is in its cool-down.
C2_SelectionNeverBlocked ==
    ev.op \in {"get_random_account", "get_least_used_account"} =>
        /\ ev.ret # NoAccount =>
              /\ IndexOf(accounts, ev.ret) # 0
              /\ ~CoolingDown(ghost, ev.ret, ev.at)
        /\ ev.ret = NoAccount <=>
              \A i \in 1..Len(accounts) : CoolingDown(ghost, accounts[i].username, ev.at)

\* C2's case: a pool {A, B}, A in its cool-down after three failures in a row,
\* and a selection that returned B.
C2_Witness ==
    /\ ev.op \in {"get_random_account", "get_least_used_account"}
    /\ Len(accounts) = 2
    /\ CoolingDown(ghost, "A", ev.at)
    /\ ev.ret = "B"

(* ------------- mark_account_failure, statement by statement ------------ *)

\* No lock guards InstagramAccount: threads inside mark_failure interleave
\* between any two loads and stores of the account's fields.  Every thread
\* calls mark_account_failure("A").

ThrAccount == IndexOf(accounts, "A")

ThrGoto(t, pc, reg) == thr' = [thr EXCEPT ![t] = [pc |-> pc, reg |-> reg]]

ConcInit ==
    /\ now = 0
    /\ accounts = InstagramAccountManager(<<"A">>)
    /\ ev = [op |-> "init"]
    /\ ghost = GhostInit
    /\ thr = [t \in Threads |-> [pc |-> "idle", reg |-> 0]]
    /\ inst = NoDownloader
    /\ files = {}
    /\ call = NoCall
    /\ prev = NoPrev

\* mark_account_failure("A") is called: the loop finds the account.
ThrCall(t) ==
    /\ thr[t].pc = "idle"
    /\ ThrAccount # 0
    /\ ThrGoto(t, "load_total", 0)
    /\ ghost' = GhostFailure(ghost, "A", now)
    /\ UNCHANGED <<now, accounts, ev>>
    /\ UNCHANGED dlVars

\* self.total_requests += 1: the load
ThrLoadTotal(t) ==
    /\ thr[t].pc = "load_total"
    /\ ThrGoto(t, "store_total", accounts[ThrAccount].total_requests)
    /\ UNCHANGED <<now, accounts, ev, ghost>>
    /\ UNCHANGED dlVars

\* self.total_requests += 1: the store
ThrStoreTotal(t) ==
    /\ thr[t].pc = "store_total"
    /\ accounts' = [accounts EXCEPT ![ThrAccount].total_requests = thr[t].reg + 1]
    /\ ThrGoto(t, "load_failed", 0)
    /\ UNCHANGED <<now, ev, ghost>>
    /\ UNCHANGED dlVars

\* self.failed_requests += 1: the load
ThrLoadFailed(t) ==
    /\ thr[t].pc = "load_failed"
    /\ ThrGoto(t, "store_failed", accounts[ThrAccount].failed_requests)
    /\ UNCHANGED <<now, accounts, ev, ghost>>
    /\ UNCHANGED dlVars

\* self.failed_requests += 1: the store
ThrStoreFailed(t) ==
    /\ thr[t].pc = "store_failed"
    /\ accounts' = [accounts EXCEPT ![ThrAccount].failed_requests = thr[t].reg + 1]
    /\ ThrGoto(t, "last_used", 0)
    /\ UNCHANGED <<now, ev, ghost>>
    /\ UNCHANGED dlVars

\* self.last_used = datetime.now()
ThrLastUsed(t) ==
    /\ thr[t].pc = "last_used"
    /\ accounts' = [accounts EXCEPT ![ThrAccount].last_used = now]
    /\ ThrGoto(t, "test", 0)
    /\ UNCHANGED <<now, ev, ghost>>
    /\ UNCHANGED dlVars

\* if self.failed_requests >= 3:
ThrTest(t) ==
    /\ thr[t].pc = "test"
    /\ ThrGoto(t, IF accounts[ThrAccount].failed_requests >= FailureThreshold
                  THEN "block" ELSE "done", 0)
    /\ UNCHANGED <<now, accounts, ev, ghost>>
    /\ UNCHANGED dlVars

\* self.is_blocked = True
ThrSetBlocked(t) ==
    /\ thr[t].pc = "block"
    /\ accounts' = [accounts EXCEPT ![ThrAccount].is_blocked = TRUE]
    /\ ThrGoto(t, "until", 0)
    /\ UNCHANGED <<now, ev, ghost>>
    /\ UNCHANGED dlVars

\* self.blocked_until = datetime.now() + timedelta(hours=1)
ThrSetUntil(t) ==
    /\ thr[t].pc = "until"
    /\ accounts' = [accounts EXCEPT ![ThrAccount].blocked_until = now + Hour]
    /\ ThrGoto(t, "done", 0)
    /\ UNCHANGED <<now, ev, ghost>>
    /\ UNCHANGED dlVars

ConcNext ==
    \E t \in Threads :
        \/ ThrCall(t)
        \/ ThrLoadTotal(t)
        \/ ThrStoreTotal(t)
        \/ ThrLoadFailed(t)
        \/ ThrStoreFailed(t)
        \/ ThrLastUsed(t)
        \/ ThrTest(t)
        \/ ThrSetBlocked(t)
        \/ ThrSetUntil(t)

SpecConc == ConcInit /\ [][ConcNext]_vars

\* The calls of mark_account_failure("A") that have returned, when no
\* thread is inside one.
CallsReturned == Cardinality({t \in Threads : thr[t].pc = "done"})

Quiescent == \A t \in Threads : thr[t].pc \in {"idle", "done"}

\* C3: under any interleaving of n concurrent mark_account_failure calls on
\* the same account no update is lost: once the n calls have returned,
\* failed_requests and total_requests have each grown by exactly n, and the
\* account is blocked if the counter has reached 3.
C3_NoLostUpdate ==
    Quiescent =>
        /\ accounts[ThrAccount].failed_requests = CallsReturned
        /\ accounts[ThrAccount].total_requests = CallsReturned
        /\ CallsReturned >= 3 => accounts[ThrAccount].is_blocked

(* --------------------------- download calls ---------------------------- *)

\* The network's answers to the probe that the calls of the model receive.
ProbeInputs ==
    {[exc |-> "DownloadError", text |-> t, info |-> NoInfo] : t \in ErrTexts}
    \cup {[exc |-> "other", text |-> {}, info |-> NoInfo]}
    \cup {[exc |-> "none", text |-> {}, info |-> i] :
            i \in {x \in ProbeInfos : x.duration = 0 /\ x.vcodec # "absent"
                                      /\ x.entries \in {0, MaxEntries}}}

\* The answers of ProbeInputs that do not lead to Instaloader.
VideoProbeInputs == {r \in ProbeInputs : analyze(r).ok => ~analyze(r).analysis.requires_login}

YtdlpExts == {"mp4", "jpg"}

\* The files the "*{shortcode}*" glob can list first.
Picks == {NoFile, F("thumb"), F("metadata")} \cup {Item(k) : k \in 1..MaxItems}

YtdlpOutcomes ==
    {YO(st, "DownloadError", t, "mp4", FALSE, "h264", FALSE, FALSE, NoFile) :
        st \in {"info", "download"}, t \in ErrTexts}
    \cup {YO(st, "other", {}, "mp4", FALSE, "h264", FALSE, FALSE, NoFile) :
        st \in {"info", "download"}}
    \cup {YO("nofile", "none", {}, "mp4", FALSE, "h264", FALSE, FALSE, pk) : pk \in Picks}
    \cup {YO("written", "none", {}, x, ov, IF x = "mp4" THEN "h264" ELSE "none", th, me, pk) :
        x \in YtdlpExts, ov \in BOOLEAN, th \in BOOLEAN, me \in BOOLEAN, pk \in Picks}
    \cup {YO("written", "none", {}, "jpg", FALSE, "absent", th, FALSE, NoFile) : th \in BOOLEAN}

MainUrls == {{".mp4"}, {"jpg"}}

ProxyOutcomes ==
    {PO("data", "none", "none", {}, FALSE, "ok", "ok"),
     PO("none", "none", "data", {}, FALSE, "ok", "ok"),
     PO("none", "none", "none", {}, FALSE, "ok", "ok"),
     PO("raise", "raise", "raise", {}, FALSE, "ok", "ok")}
    \cup {PO(a, "urls", "none", m, FALSE, d, "ok") :
            a \in {"none", "raise"}, m \in MainUrls, d \in {"ok", "broken"}}
    \cup {PO("none", "urls", "none", {".mp4"}, TRUE, "ok", e) : e \in {"ok", "http_error"}}

InstaloaderOutcomes ==
    {IO(x, t, 0, "jpg", FALSE, FALSE, l) :
        x \in {"ProfileNotExistsException", "PrivateProfileNotFollowedException",
               "TooManyRequestsException", "other"},
        t \in {{}}, l \in {"none", "ok", "failed"}}
    \cup {IO("ConnectionException", t, 0, "jpg", FALSE, FALSE, l) :
        t \in {{}, {"401"}, {"404"}}, l \in {"none", "ok", "failed"}}
    \cup {IO("none", {}, n, x, v, n > 1, l) :
        n \in 0..MaxEntries, x \in {"jpg", "mp4"}, v \in BOOLEAN,
        l \in {"none", "ok", "failed"}}

\* The call ends with a result.
Succeed(c, trace, paths, thumb, via, media_type) ==
    [c EXCEPT !.pc = "success", !.trace = trace,
              !.result = [paths |-> paths, thumb |-> thumb, media_type |-> media_type,
                          err |-> NoErr, via |-> via]]

\* The call ends with an exception.
Fail(c, trace, err) ==
    [c EXCEPT !.pc = "failed", !.trace = trace,
              !.result = [NoResult EXCEPT !.err = err]]

\* The media type of a single path: _download_with_ytdlp's for the router
\* (suffix ".mp4"), and for the platform's call of ReelsDownloader.download
\* the one the endpoint of main.py derives (suffix ".mp4", ".webm" or ".mkv").
media_type_of(entry, media) ==
    IF entry = "router"
    THEN (IF media = F("mp4") THEN "video" ELSE "photo")
    ELSE (IF media \in {F("mp4"), F("webm"), F("mkv")} THEN "video" ELSE "photo")

\* The requests the pool has recorded.
Requests(accs) ==
    IF Len(accs) = 0 THEN 0
    ELSE IF Len(accs) = 1 THEN accs[1].total_requests
    ELSE accs[1].total_requests + accs[2].total_requests

\* Some account of the pool is out of its cool-down, by the history alone.
SomeAccountFree ==
    \E i \in 1..Len(accounts) : ~CoolingDown(ghost, accounts[i].username, now)

\* Construction: settings, the pool (config.py), the router and its downloader.
DlInit ==
    /\ now = 0
    /\ accounts \in {InstagramAccountManager(l) : l \in AccountLists}
    /\ ev = [op |-> "init"]
    /\ ghost = GhostInit
    /\ thr = [t \in Threads |-> [pc |-> "idle", reg |-> 0]]
    /\ \E cred \in BOOLEAN :
          inst = [has_credentials |-> cred,
                  has_auth |-> Len(accounts) > 0 /\ has_available_accounts(accounts, now).ret,
                  current_account |-> NoAccount, instaloader |-> FALSE]
    /\ files = {}
    /\ call = NoCall
    /\ prev = NoPrev

\* Time passes.
DlTick ==
    /\ now < MaxTime
    /\ call.pc \in {"idle", "success", "failed"}
    /\ now' = now + 1
    /\ UNCHANGED <<accounts, ev, ghost, thr, inst, files, call, prev>>

\* A download is requested: InstagramDownloaderRouter.download ("router") or
\* InstagramPlatform.download, which calls ReelsDownloader.download ("platform").
StartDownload(entry) ==
    /\ call.pc \in {"idle", "success", "failed"}
    /\ Requests(accounts) < MaxRequests
    /\ prev' = [pc |-> call.pc, paths |-> call.result.paths]
    /\ call' = [NoCall EXCEPT !.pc = IF entry = "router" THEN "probe" ELSE "check_existing",
                              !.entry = entry,
                              !.avail = IF SomeAccountFree THEN "yes" ELSE "no"]
    /\ UNCHANGED <<now, accounts, ev, ghost, thr, inst, files>>

\* InstagramDownloaderRouter.download up to its routing decision.
RouterProbe(resp) ==
    /\ call.pc = "probe"
    /\ LET a == analyze(resp)
           r == route(a.analysis, inst.has_credentials)
           t == Append(call.trace,
                       Step("probe", IF a.ok THEN a.analysis.media_type ELSE a.err.kind,
                            NoAccount))
           c == [call EXCEPT !.probe = [exc |-> resp.exc, text |-> resp.text]]
       IN  call' = IF ~a.ok THEN Fail(c, t, a.err)
                   ELSE IF r.next = "failed"
                   THEN Fail([c EXCEPT !.analysis = a.analysis], t, r.err)
                   ELSE [c EXCEPT !.pc = r.next, !.analysis = a.analysis, !.trace = t]
    /\ UNCHANGED <<now, accounts, ev, ghost, thr, inst, files, prev>>

\* ReelsDownloader.download up to its first strategy.
CheckExisting ==
    /\ call.pc = "check_existing"
    /\ LET e == check_existing_download(files)
       IN  call' = IF e.found
                   THEN Succeed(call, call.trace, <<e.media>>, e.thumb, "existing",
                                media_type_of(call.entry, e.media))
                   ELSE [call EXCEPT !.pc = IF inst.has_auth THEN "select" ELSE "proxy"]
    /\ UNCHANGED <<now, accounts, ev, ghost, thr, inst, files, prev>>

\* "self.current_account = account_manager.get_random_account()".
SelectAccount ==
    /\ call.pc = "select"
    /\ LET avail == available_accounts(accounts, now)
       IN  /\ accounts' = Swept(accounts, now)
           /\ \/ /\ avail = {}
                 /\ inst' = [inst EXCEPT !.current_account = NoAccount]
                 /\ call' = [call EXCEPT !.pc = "proxy"]
              \/ \E i \in avail :
                    /\ inst' = [inst EXCEPT !.current_account = accounts[i].username]
                    /\ call' = [call EXCEPT !.pc = "ytdlp"]
    /\ UNCHANGED <<now, ev, ghost, thr, files, prev>>

\* Strategy 1 of ReelsDownloader.download: _download_via_ytdlp with the
\* selected account, and the account's success or failure recorded.
TryYtdlp(o) ==
    /\ call.pc = "ytdlp"
    /\ YtdlpFeasible(files, o)
    /\ LET r == download_via_ytdlp(files, o)
           u == inst.current_account
           t == Append(call.trace, Step("ytdlp", IF r.ok THEN "ok" ELSE r.err.kind, u))
       IN  /\ files' = r.files
           /\ IF r.ok
              THEN /\ accounts' = mark_account_success(accounts, u, now)
                   /\ ghost' = GhostSuccess(ghost, u)
                   /\ call' = Succeed(call, t, <<r.media>>, r.thumb, "ytdlp",
                                      media_type_of(call.entry, r.media))
              ELSE /\ accounts' = mark_account_failure(accounts, u, now)
                   /\ ghost' = GhostFailure(ghost, u, now)
                   /\ call' = [call EXCEPT !.pc = "proxy", !.trace = t]
    /\ UNCHANGED <<now, ev, thr, inst, prev>>

\* Strategy 2 of ReelsDownloader.download: _download_via_proxy, and the
\* generic error when it fails too.
TryProxy(o) ==
    /\ call.pc = "proxy"
    /\ LET r == download_via_proxy(files, o)
           t == call.trace \o r.tried
       IN  /\ files' = r.files
           /\ call' = IF r.ok
                      THEN Succeed(call, t, <<r.media>>, r.thumb, "proxy",
                                   media_type_of(call.entry, r.media))
                      ELSE Fail(call, t, AllMethodsFailed)
    /\ UNCHANGED <<now, accounts, ev, ghost, thr, inst, prev>>

\* _download_with_instaloader: the lazy construction (with its login) and
\* InstaloaderDownloader.download.
TryInstaloader(o) ==
    /\ call.pc = "instaloader"
    /\ (o.login = "none") = inst.instaloader
    /\ Cardinality(find_media_files(files)) + o.n <= MaxItems
    /\ LET r == instaloader_download(files, o)
           t0 == IF inst.instaloader THEN call.trace
                 ELSE Append(call.trace, Step("login", o.login, NoAccount))
           t == Append(t0, Step("instaloader", IF r.ok THEN "ok" ELSE r.err.kind,
                                NoAccount))
       IN  /\ files' = r.files
           /\ call' = IF r.ok
                      THEN Succeed(call, t, r.paths, r.thumb, "instaloader",
                                   call.analysis.media_type)
                      ELSE Fail(call, t, r.err)
    /\ inst' = [inst EXCEPT !.instaloader = TRUE]
    /\ UNCHANGED <<now, accounts, ev, ghost, thr, prev>>

\* The downloads of videos, with the pool and the clock.
Next ==
    \/ DlTick
    \/ \E entry \in {"router", "platform"} : StartDownload(entry)
    \/ \E resp \in VideoProbeInputs : RouterProbe(resp)
    \/ CheckExisting
    \/ SelectAccount
    \/ \E o \in YtdlpOutcomes : TryYtdlp(o)
    \/ \E o \in ProxyOutcomes : TryProxy(o)

Spec == DlInit /\ [][Next]_vars

\* Construction with at most the single account of INSTAGRAM_USERNAME.
RouterInit ==
    /\ DlInit
    /\ Len(accounts) <= 1

\* The router's downloads of every kind of content, the clock standing still.
RouterNext ==
    \/ StartDownload("router")
    \/ \E resp \in ProbeInputs : RouterProbe(resp)
    \/ CheckExisting
    \/ SelectAccount
    \/ \E o \in YtdlpOutcomes : TryYtdlp(o)
    \/ \E o \in ProxyOutcomes : TryProxy(o)
    \/ \E o \in InstaloaderOutcomes : TryInstaloader(o)

SpecRouter == RouterInit /\ [][RouterNext]_vars


(* -------------------------- download claims ---------------------------- *)

Ended == call.pc \in {"success", "failed"}

\* The steps of a call's trace that reach the network.
NetworkSteps ==
    {"probe", "login", "instaloader", "ytdlp", "oembed", "embed", "json", "cdn", "cdn_thumb"}

\* The steps that belong to an extraction strategy.
StrategySteps == NetworkSteps \ {"probe"}

\* The positions of the call's trace with a step of the set S.
StepsIn(S) == {i \in 1..Len(call.trace) : call.trace[i].step \in S}

\* The first strategy step of the call's trace, "none" when there is none.
FirstStrategy ==
    IF StepsIn(StrategySteps) = {} THEN "none"
    ELSE call.trace[CHOOSE i \in StepsIn(StrategySteps) :
                        \A j \in StepsIn(StrategySteps) : i <= j].step

\* C4: a download call that follows a successful call for the same identifier
\* succeeds with the same media paths through the existing-file short-circuit,
\* and its trace holds no network step: no probe and no strategy attempt.
C4_SecondCallIsLocal ==
    (Ended /\ prev.pc = "success") =>
        /\ call.pc = "success"
        /\ call.result.via = "existing"
        /\ call.result.paths = prev.paths
        /\ StepsIn(NetworkSteps) = {}

\* C5: a call whose probe says photo or carousel, made with no credentials
\* configured, has failed with a DownloadFailedError other than the generic
\* one, naming INSTAGRAM_USERNAME and INSTAGRAM_PASSWORD, with no path in its
\* result and nothing but the probe in its trace.
C5_NoCredentialsFailsFast ==
    (call.analysis.media_type \in {"photo", "carousel"} /\ ~inst.has_credentials) =>
        /\ call.pc = "failed"
        /\ call.result.err.kind = "DownloadFailedError"
        /\ call.result.err # AllMethodsFailed
        /\ {"INSTAGRAM_USERNAME", "INSTAGRAM_PASSWORD"} \subseteq call.result.err.msg
        /\ call.result.paths = <<>>
        /\ StepsIn(StrategySteps) = {}

\* A carousel of MaxEntries items is asked for with no credentials and no account
\* configured, and the call has ended.
C5_Witness ==
    /\ Ended
    /\ call.analysis.is_carousel
    /\ call.analysis.item_count = MaxEntries
    /\ ~inst.has_credentials
    /\ Len(accounts) = 0

\* C6: a failed call with a strategy step that failed with a typed platform
\* error carries a typed platform error of one of its steps, not the generic
\* DownloadFailedError.
C6_TypedErrorSurfaces ==
    (call.pc = "failed"
       /\ \E i \in StepsIn(StrategySteps) : call.trace[i].res \in TypedErrors) =>
        /\ call.result.err # AllMethodsFailed
        /\ \E i \in StepsIn(StrategySteps) : call.trace[i].res = call.result.err.kind

\* C7: a strategy step that failed with ContentNotFoundError or
\* PrivateAccountError is the last step of its call, and the call has failed.
C7_TerminalErrorStops ==
    \A i \in StepsIn(StrategySteps) :
        call.trace[i].res \in {"ContentNotFoundError", "PrivateAccountError"} =>
            /\ i = Len(call.trace)
            /\ call.pc = "failed"

\* The typed errors the text of a probe failure stands for.
TerminalKinds(text) ==
    (IF text \cap {"private", "unavailable"} # {} THEN {"PrivateAccountError"} ELSE {})
    \cup (IF text \cap {"404", "not found"} # {} THEN {"ContentNotFoundError"} ELSE {})

\* C8: a call whose probe failed with a not-found or private error has failed
\* with exactly that error, and the probe is the only step of its trace.
C8_ProbeErrorIsFinal ==
    (call.probe.exc = "DownloadError" /\ TerminalKinds(call.probe.text) # {}) =>
        /\ call.pc = "failed"
        /\ call.result.err.kind \in TerminalKinds(call.probe.text)
        /\ Len(call.trace) = 1
        /\ call.trace[1].step = "probe"
        /\ call.trace[1].res = call.result.err.kind

\* The probe of a call answered "404" and the call has ended.
C8_Witness ==
    /\ Ended
    /\ call.probe.exc = "DownloadError"
    /\ call.probe.text = {"404"}
    /\ call.result.err.kind = "ContentNotFoundError"

C11_VideoOutcome ==
    (call.pc = "success" /\ call.analysis.media_type = "video") =>
        /\ Len(call.result.paths) = 1
        /\ call.result.media_type = "video"

\* C12: a successful call returns a thumbnail only with the media type
\* "video" and exactly one media path.
C12_ThumbnailOnlyForVideo ==
    (call.pc = "success" /\ call.result.thumb # NoFile) =>
        /\ call.result.media_type = "video"
        /\ Len(call.result.paths) = 1


(* ------------------------------- URLs ---------------------------------- *)

\* A URL, and every part of one, is the sequence of its characters.
S_https == <<"h", "t", "t", "p", "s", ":", "/", "/">>

S_http == <<"h", "t", "t", "p", ":", "/", "/">>

S_www == <<"w", "w", "w", ".">>

S_instagram == <<"i", "n", "s", "t", "a", "g", "r", "a", "m", ".", "c", "o", "m">>

S_slash == <<"/">>

S_reel == <<"r", "e", "e", "l">>

S_p == <<"p">>

S_tv == <<"t", "v">>

\* The characters of the model's URLs outside [A-Za-z0-9_-].
NonShortcodeChars == {".", "/", "?", "#", ":", "=", "&", "!"}

\* c is of the class [A-Za-z0-9_-].
IsShortcodeChar(c) == c \notin NonShortcodeChars

\* The {11} of SHORTCODE_PATTERN.
ShortcodeLen == 11

\* The literal lit stands in s at position i.
StartsWithAt(s, i, lit) ==
    /\ i >= 1
    /\ i + Len(lit) - 1 <= Len(s)
    /\ \A k \in 1..Len(lit) : s[i + k - 1] = lit[k]

\* "lit in s".
Contains(s, lit) == \E i \in 1..Len(s) : StartsWithAt(s, i, lit)

\* The position of the first character of cs in s at or after from;
\* Len(s) + 1 when there is none.
FirstOf(s, cs, from) ==
    IF \E i \in from..Len(s) : s[i] \in cs
    THEN CHOOSE i \in from..Len(s) : s[i] \in cs /\ \A j \in from..(i - 1) : s[j] \notin cs
    ELSE Len(s) + 1

\* A group that runs to the end of s.
RunEnd_all(s, i) == Len(s)

\* The end of the longest run of class characters of s that starts at i:
\* what the greedy "[A-Za-z0-9_-]+" takes.
RunEnd(s, i) == FirstOf(s, NonShortcodeChars, i) - 1

\* urlparse(url), then netloc + path: the URL without its scheme, its query
\* and its fragment.
urlparse_clean(url) ==
    LET a == IF StartsWithAt(url, 1, S_https) THEN Len(S_https) + 1
             ELSE IF StartsWithAt(url, 1, S_http) THEN Len(S_http) + 1
             ELSE 1
        b == FirstOf(url, {"?", "#"}, a)
    IN  SubSeq(url, a, b - 1)

\* URL_PATTERNS, in order: the literal each one starts with, and whether a
\* "[^/]+/reel/" follows it.
URL_PATTERNS ==
    << [lit |-> S_instagram \o S_slash \o S_reel \o S_slash, user |-> FALSE],
       [lit |-> S_instagram \o S_slash \o S_p \o S_slash, user |-> FALSE],
       [lit |-> S_instagram \o S_slash \o S_tv \o S_slash, user |-> FALSE],
       [lit |-> S_instagram \o S_slash, user |-> TRUE] >>

\* Where group 1 starts when pattern p matches s at position i; 0 when it
\* does not match there.
GroupStart(s, p, i) ==
    IF ~StartsWithAt(s, i, p.lit) THEN 0
    ELSE IF ~p.user
    THEN LET g == i + Len(p.lit)
         IN  IF g <= Len(s) /\ IsShortcodeChar(s[g]) THEN g ELSE 0
    ELSE LET u == i + Len(p.lit)
             q == FirstOf(s, {"/"}, u)
             g == q + Len(S_slash \o S_reel \o S_slash)
         IN  IF /\ q > u
                /\ StartsWithAt(s, q, S_slash \o S_reel \o S_slash)
                /\ g <= Len(s)
                /\ IsShortcodeChar(s[g])
             THEN g ELSE 0

\* pattern.search(s): the leftmost match and its group 1.
pattern_search(s, p) ==
    LET hits == {i \in 1..Len(s) : GroupStart(s, p, i) # 0}
    IN  IF hits = {} THEN [found |-> FALSE, group |-> <<>>]
        ELSE LET i == CHOOSE h \in hits : \A j \in hits : h <= j
                 g == GroupStart(s, p, i)
             IN  [found |-> TRUE, group |-> SubSeq(s, g, RunEnd(s, g))]

\* The first pattern of URL_PATTERNS found in s, 0 when there is none.
FirstPattern(s) ==
    IF \E k \in 1..Len(URL_PATTERNS) : pattern_search(s, URL_PATTERNS[k]).found
    THEN CHOOSE k \in 1..Len(URL_PATTERNS) :
            /\ pattern_search(s, URL_PATTERNS[k]).found
            /\ \A j \in 1..(k - 1) : ~pattern_search(s, URL_PATTERNS[j]).found
    ELSE 0

\* ReelsURLParser.extract_shortcode.
extract_shortcode(url) ==
    IF url = <<>>
    THEN [ok |-> FALSE, shortcode |-> <<>>,
          err |-> Err("InvalidURLError", {"non-empty string"})]
    ELSE LET clean == urlparse_clean(url)
             k == FirstPattern(clean)
             group == pattern_search(clean, URL_PATTERNS[k]).group
         IN  IF k = 0
             THEN [ok |-> FALSE, shortcode |-> <<>>,
                   err |-> Err("InvalidURLError", {"does not match"})]
             ELSE IF Len(group) = ShortcodeLen
             THEN [ok |-> TRUE, shortcode |-> group, err |-> NoErr]
             ELSE [ok |-> FALSE, shortcode |-> <<>>,
                   err |-> Err("InvalidURLError", {"Invalid shortcode format"})]

\* normalize_url that keeps the URL it was given.
normalize_url_same(url) ==
    LET r == extract_shortcode(url)
    IN  [ok |-> r.ok, url |-> IF r.ok THEN url ELSE <<>>, err |-> r.err]

\* ReelsURLParser.normalize_url.
normalize_url(url) ==
    LET r == extract_shortcode(url)
    IN  [ok |-> r.ok,
         url |-> IF r.ok
                 THEN S_https \o S_www \o S_instagram \o S_slash \o S_reel \o S_slash
                      \o r.shortcode \o S_slash
                 ELSE <<>>,
         err |-> r.err]


(* ----------------------------- platforms ------------------------------- *)

S_youtube == <<"y", "o", "u", "t", "u", "b", "e", ".", "c", "o", "m">>

S_youtu_be == <<"y", "o", "u", "t", "u", ".", "b", "e">>

S_m == <<"m", ".">>

S_watch == <<"/", "w", "a", "t", "c", "h", "?", "v", "=">>

S_shorts == <<"/", "s", "h", "o", "r", "t", "s", "/">>

S_tiktok == <<"t", "i", "k", "t", "o", "k", ".", "c", "o", "m">>

S_twitter == <<"t", "w", "i", "t", "t", "e", "r", ".", "c", "o", "m">>

S_x == <<"x", ".", "c", "o", "m">>

\* InstagramPlatform.can_handle.
instagram_can_handle(url) ==
    IF ~Contains(url, S_instagram) THEN FALSE ELSE extract_shortcode(url).ok

\* The literal lit stands in s at position i with a character of [\w-] after it.
LitThenChar(s, i, lit) ==
    /\ StartsWithAt(s, i, lit)
    /\ i + Len(lit) <= Len(s)
    /\ IsShortcodeChar(s[i + Len(lit)])

\* YouTubePlatform.can_handle: re.match of the four patterns, each with its
\* optional scheme and, for the first two, its optional "www.".
youtube_can_handle(url) ==
    LET a  == IF StartsWithAt(url, 1, S_https) THEN Len(S_https) + 1
              ELSE IF StartsWithAt(url, 1, S_http) THEN Len(S_http) + 1
              ELSE 1
        As == {1, a}
        Bs == As \cup {i + Len(S_www) : i \in {j \in As : StartsWithAt(url, j, S_www)}}
    IN  \/ \E b \in Bs : LitThenChar(url, b, S_youtube \o S_watch)
        \/ \E b \in Bs : LitThenChar(url, b, S_youtube \o S_shorts)
        \/ \E b \in As : LitThenChar(url, b, S_youtu_be \o S_slash)
        \/ \E b \in As : LitThenChar(url, b, S_m \o S_youtube \o S_watch)

\* self.platforms, in registration order.
Platforms == <<"instagram", "youtube">>

can_handle(platform, url) ==
    IF platform = "instagram" THEN instagram_can_handle(url) ELSE youtube_can_handle(url)

\* detect_platform that returns the last platform that can handle the URL.
detect_platform_last(url) ==
    IF \E k \in 1..Len(Platforms) : can_handle(Platforms[k], url)
    THEN Platforms[CHOOSE k \in 1..Len(Platforms) :
                      /\ can_handle(Platforms[k], url)
                      /\ \A j \in (k + 1)..Len(Platforms) : ~can_handle(Platforms[j], url)]
    ELSE "none"

\* UniversalDownloader.detect_platform.
detect_platform(url) ==
    IF \E k \in 1..Len(Platforms) : can_handle(Platforms[k], url)
    THEN Platforms[CHOOSE k \in 1..Len(Platforms) :
                      /\ can_handle(Platforms[k], url)
                      /\ \A j \in 1..(k - 1) : ~can_handle(Platforms[j], url)]
    ELSE "none"

\* The hint of UniversalDownloader.download for a URL no platform handles.
unsupported_hint(url) ==
    IF Contains(url, S_instagram) THEN "Check Instagram URL format"
    ELSE IF Contains(url, S_youtube) \/ Contains(url, S_youtu_be)
    THEN "Check YouTube URL format"
    ELSE IF Contains(url, S_tiktok) THEN "TikTok support coming soon"
    ELSE IF Contains(url, S_twitter) \/ Contains(url, S_x) THEN "Twitter/X support coming soon"
    ELSE "Supported platforms: Instagram, YouTube"

\* UniversalDownloader.download, given how the platform's own download ends
\* (out: "ok", or the class of the exception it raises).
universal_download(url, out) ==
    LET platform == detect_platform(url)
    IN  IF platform = "none"
        THEN [platform |-> "none", invoked |-> {}, tag |-> "none",
              err |-> Err("DownloadFailedError",
                          {"Unsupported URL or platform", unsupported_hint(url)})]
        ELSE [platform |-> platform, invoked |-> {platform},
              tag |-> IF out = "ok" THEN platform ELSE "none",
              err |-> IF out = "ok" THEN NoErr ELSE Err(out, {})]

(* ------------------------------ URL calls ------------------------------ *)

Schemes == {S_https, S_http, <<>>}

S_notinstagram == <<"n", "o", "t", "i", "n", "s", "t", "a", "g", "r", "a", "m", ".", "c", "o", "m">>

S_example == <<"e", "x", "a", "m", "p", "l", "e", ".", "c", "o", "m">>

InstagramHosts == {S_instagram, S_www \o S_instagram}

Hosts ==
    InstagramHosts
    \cup {S_notinstagram, S_example, S_youtube, S_www \o S_youtube, S_youtu_be,
          S_m \o S_youtube, S_tiktok}

\* The four shapes of URL_PATTERNS; "ig_reel" is /{user}/reel/ for the user
\* named instagram.com.
SupportedShapes == {"reel", "p", "tv", "user_reel", "ig_reel"}

Shapes == SupportedShapes \cup {"profile", "watch", "shorts", "bare", "empty"}

S_valid == <<"A", "B", "C", "_", "1", "2", "3", "-", "x", "y", "z">>

Codes == {S_valid, <<"A", "B", "C">>, <<"A", "B", "C", "_", "1", "2", "3", "-", "x", "y", "z", "Q">>, <<"A", "B", "C", "_", "1", "!", "3", "-", "x", "y", "z">>}

Suffixes == {<<>>, <<"?", "u", "t", "m", "_", "s", "o", "u", "r", "c", "e", "=", "t", "e", "s", "t">>, <<"#", "t", "o", "p">>}

S_user == <<"s", "o", "m", "e", ".", "u", "s", "e", "r">>

S_profile == <<"/", "u", "s", "e", "r", "/", "p", "r", "o", "f", "i", "l", "e">>

\* The path of a URL of the shape, with the code in it.
PathOf(shape, code) ==
    IF shape = "reel" THEN S_slash \o S_reel \o S_slash \o code
    ELSE IF shape = "p" THEN S_slash \o S_p \o S_slash \o code
    ELSE IF shape = "tv" THEN S_slash \o S_tv \o S_slash \o code
    ELSE IF shape = "user_reel" THEN S_slash \o S_user \o S_slash \o S_reel \o S_slash \o code
    ELSE IF shape = "ig_reel"
    THEN S_slash \o S_instagram \o S_slash \o S_reel \o S_slash \o code
    ELSE IF shape = "profile" THEN S_profile
    ELSE IF shape = "watch" THEN S_watch \o code
    ELSE IF shape = "shorts" THEN S_shorts \o code
    ELSE S_slash \o code

UrlParts ==
    [scheme : Schemes, host : Hosts, shape : Shapes, code : Codes, slash : BOOLEAN,
     suffix : Suffixes]

\* The URL made of the parts; the empty string for the shape "empty".
Render(parts) ==
    IF parts.shape = "empty" THEN <<>>
    ELSE parts.scheme \o parts.host \o PathOf(parts.shape, parts.code)
         \o (IF parts.slash THEN S_slash ELSE <<>>) \o parts.suffix

\* Nothing but URL operations is running; the URL the caller holds is drawn here.
UrlInit ==
    /\ now = 0
    /\ accounts = InstagramAccountManager(<<>>)
    /\ \E parts \in UrlParts : ev = [op |-> "init", parts |-> parts]
    /\ ghost = GhostInit
    /\ thr = [t \in Threads |-> [pc |-> "idle", reg |-> 0]]
    /\ inst = NoDownloader
    /\ files = {}
    /\ call = NoCall
    /\ prev = NoPrev

\* ReelsURLParser.extract_shortcode(url).
ExtractShortcode ==
    /\ ev' = [op |-> "extract_shortcode", parts |-> ev.parts, url |-> Render(ev.parts),
              ret |-> extract_shortcode(Render(ev.parts))]
    /\ UNCHANGED <<now, accounts, ghost, thr, inst, files, call, prev>>

\* ReelsURLParser.normalize_url(url).
NormalizeUrl ==
    /\ ev' = [op |-> "normalize_url", parts |-> ev.parts, url |-> Render(ev.parts),
              ret |-> normalize_url(Render(ev.parts))]
    /\ UNCHANGED <<now, accounts, ghost, thr, inst, files, call, prev>>

\* UniversalDownloader.detect_platform(url).
DetectPlatform ==
    /\ ev' = [op |-> "detect_platform", parts |-> ev.parts, url |-> Render(ev.parts),
              ret |-> detect_platform(Render(ev.parts))]
    /\ UNCHANGED <<now, accounts, ghost, thr, inst, files, call, prev>>

\* UniversalDownloader.download(url).
UniversalDownload(out) ==
    /\ ev' = [op |-> "download", parts |-> ev.parts, url |-> Render(ev.parts),
              ret |-> universal_download(Render(ev.parts), out)]
    /\ UNCHANGED <<now, accounts, ghost, thr, inst, files, call, prev>>

UrlNext ==
    \/ ExtractShortcode
    \/ NormalizeUrl
    \/ DetectPlatform
    \/ \E out \in {"ok", "DownloadFailedError"} : UniversalDownload(out)

SpecUrl == UrlInit /\ [][UrlNext]_vars


(* ------------------------------ URL claims ----------------------------- *)

\* The first platform, Instagram before YouTube, whose can_handle accepts the URL.
FirstHandler(url) ==
    IF instagram_can_handle(url) THEN "instagram"
    ELSE IF youtube_can_handle(url) THEN "youtube"
    ELSE "none"

\* C13: detect_platform returns the first platform in registration order that
\* can handle the URL, or none; download invokes exactly that platform and tags
\* its result with the platform's name, and with no platform it raises the
\* unsupported-platform DownloadFailedError with a hint, invoking no platform.
C13_FirstPlatformWins ==
    /\ ev.op = "detect_platform" => ev.ret = FirstHandler(ev.url)
    /\ ev.op = "download" =>
          LET platform == FirstHandler(ev.url)
          IN  IF platform = "none"
              THEN /\ ev.ret.invoked = {}
                   /\ ev.ret.err.kind = "DownloadFailedError"
                   /\ "Unsupported URL or platform" \in ev.ret.err.msg
                   /\ unsupported_hint(ev.url) \in ev.ret.err.msg
              ELSE /\ ev.ret.invoked = {platform}
                   /\ ev.ret.err = NoErr => ev.ret.tag = platform

\* A URL both platforms can handle was downloaded by Instagram.
C13_Witness ==
    /\ ev.op = "download"
    /\ instagram_can_handle(ev.url)
    /\ youtube_can_handle(ev.url)
    /\ ev.ret.tag = "instagram"

\* The host of the URL is an Instagram domain.
InstagramHost == ev.parts.host \in InstagramHosts

\* The path of the URL has one of the four shapes.
SupportedShape == ev.parts.shape \in SupportedShapes

\* The candidate shortcode is 11 characters of the shortcode class.
ValidCode ==
    /\ Len(ev.parts.code) = ShortcodeLen
    /\ \A i \in 1..Len(ev.parts.code) : IsShortcodeChar(ev.parts.code[i])

\* C14: extract_shortcode fails with InvalidURLError for every URL whose host
\* is not an Instagram domain, whose path has none of the four shapes, or whose
\* candidate shortcode is not 11 characters of the class; so does the empty string.
C14_RejectsForeignUrls ==
    (ev.op = "extract_shortcode" /\ (~InstagramHost \/ ~SupportedShape \/ ~ValidCode)) =>
        /\ ~ev.ret.ok
        /\ ev.ret.err.kind = "InvalidURLError"

\* C15: for an Instagram URL of a supported shape with a valid shortcode,
\* extract_shortcode returns that shortcode, whatever the scheme, the "www."
\* prefix, the query string, the fragment and the trailing slash.
C15_ExtractsShortcode ==
    (ev.op = "extract_shortcode" /\ InstagramHost /\ SupportedShape /\ ValidCode) =>
        /\ ev.ret.ok
        /\ ev.ret.shortcode = ev.parts.code

\* A shortcode was extracted from a URL with a query string and a trailing slash.
C15_Witness ==
    /\ ev.op = "extract_shortcode"
    /\ InstagramHost /\ SupportedShape /\ ValidCode
    /\ ev.parts.slash
    /\ ev.parts.suffix # <<>>
    /\ ev.ret.ok

\* The canonical URL of a shortcode.
Canonical(shortcode) ==
    S_https \o S_www \o S_instagram \o S_slash \o S_reel \o S_slash \o shortcode \o S_slash

\* C16: for every URL extract_shortcode accepts, normalize_url returns the
\* canonical reel URL of its shortcode, from which extract_shortcode returns the
\* same shortcode, and normalising the canonical URL returns it unchanged.
C16_NormalizeKeepsShortcode ==
    (ev.op = "normalize_url" /\ extract_shortcode(ev.url).ok) =>
        /\ ev.ret.ok
        /\ ev.ret.url = Canonical(extract_shortcode(ev.url).shortcode)
        /\ extract_shortcode(ev.ret.url) = extract_shortcode(ev.url)
        /\ normalize_url(ev.ret.url) = ev.ret

\* A URL that is not in canonical form was normalised.
C16_Witness ==
    /\ ev.op = "normalize_url"
    /\ ev.ret.ok
    /\ ev.ret.url # ev.url


(* --------------------------- metadata storage -------------------------- *)

\* Characters of the model's texts that are not written as themselves.
DQ == "dq"

BS == "bs"

LF == "lf"

Hangul == "ga"

\* A lone surrogate: a character of a Python str that UTF-8 cannot encode.
Surrogate == "sur"

Str(v) == [t |-> "str", v |-> v]

List(v) == [t |-> "list", v |-> v]

Dict(v) == [t |-> "dict", v |-> v]

\* The concatenation of the sequences of a sequence.
RECURSIVE Flatten(_)
Flatten(chunks) ==
    IF chunks = <<>> THEN <<>> ELSE Head(chunks) \o Flatten(Tail(chunks))

\* The JSON escape of a character of a string (ensure_ascii=False).
escape_char(c) ==
    IF c = DQ THEN <<BS, DQ>>
    ELSE IF c = BS THEN <<BS, BS>>
    ELSE IF c = LF THEN <<BS, "n">>
    ELSE <<c>>

\* An encoder that writes every character as it is.
encode_string_raw(cs) == <<DQ>> \o cs \o <<DQ>>

\* json.encoder.encode_basestring: the string between double quotes.
encode_string(cs) ==
    <<DQ>> \o Flatten([i \in 1..Len(cs) |-> escape_char(cs[i])]) \o <<DQ>>

\* json.JSONEncoder.iterencode with indent: the chunks of the text of x.
RECURSIVE iterencode(_)
iterencode(x) ==
    IF x.t = "str" THEN <<encode_string(x.v)>>
    ELSE IF x.v = <<>> THEN <<IF x.t = "list" THEN <<"[", "]">> ELSE <<"{", "}">>>>
    ELSE IF x.t = "list"
    THEN <<<<"[", LF, " ">>>>
         \o Flatten([i \in 1..Len(x.v) |->
                (IF i = 1 THEN <<>> ELSE <<<<",", LF, " ">>>>) \o iterencode(x.v[i])])
         \o <<<<LF, "]">>>>
    ELSE <<<<"{", LF, " ">>>>
         \o Flatten([i \in 1..Len(x.v) |->
                (IF i = 1 THEN <<>> ELSE <<<<",", LF, " ">>>>)
                \o <<encode_string(x.v[i][1]), <<":", " ">>>> \o iterencode(x.v[i][2])])
         \o <<<<LF, "}">>>>

\* The first chunk that UTF-8 cannot encode, or 0.
FirstUnencodable(chunks) ==
    IF \E k \in 1..Len(chunks) : \E i \in 1..Len(chunks[k]) : chunks[k][i] = Surrogate
    THEN CHOOSE k \in 1..Len(chunks) :
            /\ \E i \in 1..Len(chunks[k]) : chunks[k][i] = Surrogate
            /\ \A j \in 1..(k - 1) : \A i \in 1..Len(chunks[j]) : chunks[j][i] # Surrogate
    ELSE 0

\* The position of the first character of s at or after i that is not white space.
RECURSIVE SkipWs(_, _)
SkipWs(s, i) ==
    IF i <= Len(s) /\ s[i] \in {" ", LF} THEN SkipWs(s, i + 1) ELSE i

NoParse == [ok |-> FALSE, val |-> Str(<<>>), next |-> 0]

\* json.decoder.scanstring from position i, after the opening quote.
RECURSIVE scanstring(_, _, _)
scanstring(s, i, acc) ==
    IF i > Len(s) THEN NoParse
    ELSE IF s[i] = DQ THEN [ok |-> TRUE, val |-> Str(acc), next |-> i + 1]
    ELSE IF s[i] = LF THEN NoParse
    ELSE IF s[i] = BS
    THEN IF i + 1 > Len(s) THEN NoParse
         ELSE IF s[i + 1] = DQ THEN scanstring(s, i + 2, Append(acc, DQ))
         ELSE IF s[i + 1] = BS THEN scanstring(s, i + 2, Append(acc, BS))
         ELSE IF s[i + 1] = "n" THEN scanstring(s, i + 2, Append(acc, LF))
         ELSE NoParse
    ELSE scanstring(s, i + 1, Append(acc, s[i]))

\* json.scanner: the value that starts at position i of s.
RECURSIVE scan_once(_, _)
RECURSIVE scan_array(_, _, _)
RECURSIVE scan_object(_, _, _)
scan_once(s, i) ==
    IF i > Len(s) THEN NoParse
    ELSE IF s[i] = DQ THEN scanstring(s, i + 1, <<>>)
    ELSE IF s[i] = "["
    THEN LET j == SkipWs(s, i + 1)
         IN  IF j <= Len(s) /\ s[j] = "]"
             THEN [ok |-> TRUE, val |-> List(<<>>), next |-> j + 1]
             ELSE scan_array(s, j, <<>>)
    ELSE IF s[i] = "{"
    THEN LET j == SkipWs(s, i + 1)
         IN  IF j <= Len(s) /\ s[j] = "}"
             THEN [ok |-> TRUE, val |-> Dict(<<>>), next |-> j + 1]
             ELSE scan_object(s, j, <<>>)
    ELSE NoParse

\* json.decoder.JSONArray: the items from position i on.
scan_array(s, i, acc) ==
    LET item == scan_once(s, i)
        j == SkipWs(s, item.next)
    IN  IF ~item.ok \/ j > Len(s) THEN NoParse
        ELSE IF s[j] = "]"
        THEN [ok |-> TRUE, val |-> List(Append(acc, item.val)), next |-> j + 1]
        ELSE IF s[j] = "," THEN scan_array(s, SkipWs(s, j + 1), Append(acc, item.val))
        ELSE NoParse

\* dict assignment: the pair replaces the value of a key that is present.
SetKey(pairs, key, val) ==
    IF \E k \in 1..Len(pairs) : pairs[k][1] = key
    THEN [k \in 1..Len(pairs) |-> IF pairs[k][1] = key THEN <<key, val>> ELSE pairs[k]]
    ELSE Append(pairs, <<key, val>>)

\* json.decoder.JSONObject: the pairs from position i on.
scan_object(s, i, acc) ==
    IF i > Len(s) \/ s[i] # DQ THEN NoParse
    ELSE LET key == scanstring(s, i + 1, <<>>)
             c == SkipWs(s, key.next)
             item == scan_once(s, SkipWs(s, c + 1))
             j == SkipWs(s, item.next)
         IN  IF ~key.ok \/ c > Len(s) THEN NoParse
             ELSE IF s[c] # ":" THEN NoParse
             ELSE IF ~item.ok \/ j > Len(s) THEN NoParse
             ELSE IF s[j] = "}"
             THEN [ok |-> TRUE, val |-> Dict(SetKey(acc, key.val.v, item.val)),
                   next |-> j + 1]
             ELSE IF s[j] = ","
             THEN scan_object(s, SkipWs(s, j + 1), SetKey(acc, key.val.v, item.val))
             ELSE NoParse

\* json.load: the value of the whole text; ok is false where it raises.
json_load(text) ==
    LET r == scan_once(text, SkipWs(text, 1))
    IN  IF r.ok /\ SkipWs(text, r.next) = Len(text) + 1
        THEN [ok |-> TRUE, val |-> r.val]
        ELSE [ok |-> FALSE, val |-> Str(<<>>)]

\* MetadataStorage.get_metadata_path.
get_metadata_path(shortcode) == <<shortcode, "metadata.json">>

\* The text of the file at path, given that it exists.
TextOf(fs, path) == (CHOOSE f \in fs : f[1] = path)[2]

Exists(fs, path) == \E f \in fs : f[1] = path

\* open(path, 'w') followed by the writes of text.
WriteFile(fs, path, text) == {f \in fs : f[1] # path} \cup {<<path, text>>}

\* MetadataStorage.save_metadata: the file is truncated and the chunks are
\* written in turn; a chunk UTF-8 cannot encode raises, with the chunks before
\* it left in the file.
save_metadata(fs, shortcode, metadata) ==
    LET path == get_metadata_path(shortcode)
        chunks == iterencode(metadata)
        k == FirstUnencodable(chunks)
    IN  IF k = 0
        THEN [files |-> WriteFile(fs, path, Flatten(chunks)), ok |-> TRUE, err |-> NoErr]
        ELSE [files |-> WriteFile(fs, path, Flatten(SubSeq(chunks, 1, k - 1))),
              ok |-> FALSE, err |-> Err("DownloadFailedError", {"Failed to save metadata"})]

\* MetadataStorage.load_metadata: found is false where it returns None.
load_metadata(fs, shortcode) ==
    LET path == get_metadata_path(shortcode)
    IN  IF ~Exists(fs, path) THEN [found |-> FALSE, val |-> Str(<<>>)]
        ELSE LET r == json_load(TextOf(fs, path))
             IN  [found |-> r.ok, val |-> r.val]

\* MetadataStorage.delete_metadata.
delete_metadata(fs, shortcode) ==
    LET path == get_metadata_path(shortcode)
    IN  [files |-> {f \in fs : f[1] # path}, ret |-> Exists(fs, path)]

\* dict.get(key) of a parsed value: the value of the key, or an empty string.
Get(x, key) ==
    IF x.t = "dict" /\ \E k \in 1..Len(x.v) : x.v[k][1] = key
    THEN (x.v[CHOOSE k \in 1..Len(x.v) : x.v[k][1] = key])[2]
    ELSE Str(<<>>)


(* ---------------------------- metadata calls --------------------------- *)

Shortcodes == {"S1", "S2"}

\* Captions: plain, quoted, a backslash before n, a line break with a hashtag,
\* non-ASCII with a mention, JSON punctuation, and one UTF-8 cannot encode.
Captions ==
    {<<>>, <<"a">>, <<DQ, "a", DQ>>, <<BS, "n">>, <<"a", LF, "#", "b">>,
     <<Hangul, ",", "@", "a">>, <<"}", "]", ":">>, <<"a", Surrogate>>}

TagLists == {<<>>, <<Str(<<Hangul>>), Str(<<"b">>)>>}

MentionLists == {<<>>, <<Str(<<"a", ".", "b">>)>>}

\* The dictionary of extract_from_ytdlp, or with comments that of
\* extract_from_instaloader, cut down to the text fields.
Metadata(caption, hashtags, mentions) ==
    Dict(<<<<<<"source">>, Str(IF mentions = <<>> THEN <<"yt-dlp">> ELSE <<"instaloader">>)>>,
           <<<<"post">>, Dict(<<<<<<"caption">>, Str(caption)>>,
                                <<<<"hashtags">>, List(hashtags)>>,
                                <<<<"mentions">>, List(mentions)>>>>)>>>>
         \o (IF mentions = <<>> THEN <<>>
             ELSE <<<<<<"comments">>, List(<<Dict(<<<<<<"text">>, Str(caption)>>>>)>>)>>>>))

\* Dictionaries with no hashtag and no mention, and with both.
Metadatas ==
    {Metadata(c, <<>>, <<>>) : c \in Captions}
    \cup {Metadata(c, h, m) : c \in Captions, h \in TagLists \ {<<>>}, m \in MentionLists \ {<<>>}}

\* The last write to each identifier's file: its kind, the dictionary of a
\* save that returned, and whether that save found another text in the file.
NoWrite == [kind |-> "none", metadata |-> Dict(<<>>), replaced |-> FALSE]

\* The download directory holds no metadata.
MetaInit ==
    /\ now = 0
    /\ accounts = InstagramAccountManager(<<>>)
    /\ ev = [op |-> "init"]
    /\ ghost = [sc \in Shortcodes |-> NoWrite]
    /\ thr = [t \in Threads |-> [pc |-> "idle", reg |-> 0]]
    /\ inst = NoDownloader
    /\ files = {}
    /\ call = NoCall
    /\ prev = NoPrev

\* MetadataStorage.save_metadata(shortcode, metadata).
SaveMetadata(shortcode, metadata) ==
    LET r == save_metadata(files, shortcode, metadata)
        path == get_metadata_path(shortcode)
    IN  /\ files' = r.files
        /\ ev' = [op |-> "save_metadata", shortcode |-> shortcode, ok |-> r.ok, err |-> r.err]
        /\ ghost' = [ghost EXCEPT ![shortcode] =
                        IF r.ok
                        THEN [kind |-> "saved", metadata |-> metadata,
                              replaced |-> /\ Exists(files, path)
                                           /\ TextOf(files, path) # TextOf(r.files, path)]
                        ELSE [kind |-> "failed", metadata |-> Dict(<<>>), replaced |-> FALSE]]
        /\ UNCHANGED <<now, accounts, thr, inst, call, prev>>

\* MetadataStorage.load_metadata(shortcode).
LoadMetadata(shortcode) ==
    /\ ev' = [op |-> "load_metadata", shortcode |-> shortcode,
              ret |-> load_metadata(files, shortcode)]
    /\ UNCHANGED <<now, accounts, ghost, thr, inst, files, call, prev>>

\* MetadataStorage.delete_metadata(shortcode).
DeleteMetadata(shortcode) ==
    LET r == delete_metadata(files, shortcode)
    IN  /\ files' = r.files
        /\ ev' = [op |-> "delete_metadata", shortcode |-> shortcode, ret |-> r.ret]
        /\ ghost' = [ghost EXCEPT ![shortcode] =
                        IF r.ret THEN [NoWrite EXCEPT !.kind = "deleted"] ELSE @]
        /\ UNCHANGED <<now, accounts, thr, inst, call, prev>>

MetaNext ==
    \/ \E shortcode \in Shortcodes, metadata \in Metadatas : SaveMetadata(shortcode, metadata)
    \/ \E shortcode \in Shortcodes : LoadMetadata(shortcode)
    \/ \E shortcode \in Shortcodes : DeleteMetadata(shortcode)

SpecMeta == MetaInit /\ [][MetaNext]_vars

\* C17: load_metadata after a save_metadata of the same identifier that
\* returned, with no other write to that identifier in between, returns the
\* saved caption, hashtags and mentions, and nothing but the dictionary of that
\* last save.
C17_SaveLoadRoundTrip ==
    (ev.op = "load_metadata" /\ ghost[ev.shortcode].kind = "saved") =>
        LET saved == ghost[ev.shortcode].metadata
        IN  /\ ev.ret.found
            /\ Get(Get(ev.ret.val, <<"post">>), <<"caption">>)
                 = Get(Get(saved, <<"post">>), <<"caption">>)
            /\ Get(Get(ev.ret.val, <<"post">>), <<"hashtags">>)
                 = Get(Get(saved, <<"post">>), <<"hashtags">>)
            /\ Get(Get(ev.ret.val, <<"post">>), <<"mentions">>)
                 = Get(Get(saved, <<"post">>), <<"mentions">>)
            /\ ev.ret.val = saved

\* A dictionary with quotes in its caption and no comments was loaded after it
\* had replaced another text in the file.
C17_Witness ==
    /\ ev.op = "load_metadata"
    /\ ghost[ev.shortcode].kind = "saved"
    /\ ghost[ev.shortcode].replaced
    /\ ev.ret.found
    /\ Get(Get(ev.ret.val, <<"post">>), <<"caption">>) = Str(<<DQ, "a", DQ>>)
    /\ Get(ev.ret.val, <<"comments">>) = Str(<<>>)


(* ----------------------------- probe calls ----------------------------- *)

\* Nothing but the analyzer is running; what extract_info will do is drawn here.
ProbeInit ==
    /\ now = 0
    /\ accounts = InstagramAccountManager(<<>>)
    /\ \E resp \in ProbeResponses : ev = [op |-> "init", resp |-> resp]
    /\ ghost = GhostInit
    /\ thr = [t \in Threads |-> [pc |-> "idle", reg |-> 0]]
    /\ inst = NoDownloader
    /\ files = {}
    /\ call = NoCall
    /\ prev = NoPrev

\* InstagramMediaAnalyzer.analyze(shortcode).
Analyze ==
    /\ ev' = [op |-> "analyze", resp |-> ev.resp, ret |-> analyze(ev.resp)]
    /\ UNCHANGED <<now, accounts, ghost, thr, inst, files, call, prev>>

ProbeNext == Analyze

SpecProbe == ProbeInit /\ [][ProbeNext]_vars

\* The response is a container of items: a playlist, or a dict with entries.
IsContainer(info) == info.playlist \/ info.entries > 0

\* The response has a video-typed extension, a video codec or a duration.
HasVideoSign(info) ==
    \/ info.ext \in {"mp4", "webm", "mov"}
    \/ info.vcodec \notin {"absent", "none"}
    \/ info.duration # 0

\* C18: the probe classifies a response as carousel, with a login required,
\* when it is a container; otherwise as video, with no login required, when it
\* has a video-typed extension, a video codec or a nonzero duration; otherwise
\* as photo, with a login required.
C18_ClassificationRules ==
    (ev.op = "analyze" /\ ev.resp.exc = "none") =>
        /\ ev.ret.ok
        /\ ev.ret.analysis.media_type =
              IF IsContainer(ev.resp.info) THEN "carousel"
              ELSE IF HasVideoSign(ev.resp.info) THEN "video"
              ELSE "photo"
        /\ ev.ret.analysis.requires_login = (ev.ret.analysis.media_type # "video")

\* A response with nothing of a video but a duration was classified as a video.
C18_Witness ==
    /\ ev.op = "analyze"
    /\ ev.resp.exc = "none"
    /\ ~IsContainer(ev.resp.info)
    /\ ev.resp.info.ext = "jpg"
    /\ ev.resp.info.vcodec = "none"
    /\ ev.resp.info.duration = 1
    /\ ev.ret.analysis.media_type = "video"
    /\ ~ev.ret.analysis.requires_login


(* ------------------------- strategy A, one call ------------------------ *)

\* The directories _download_via_ytdlp can find: _check_existing_download has
\* found no media file in them.
YtdlpDirs ==
    {fs \in SUBSET {F("thumb"), F("metadata"), Item(1), Item(2)} :
        ~check_existing_download(fs).found}

\* One strategy call is about to run; the directory and what the library
\* will do are drawn here.
YtdlpInit ==
    /\ now = 0
    /\ accounts = InstagramAccountManager(<<>>)
    /\ files \in YtdlpDirs
    /\ \E o \in YtdlpOutcomes : YtdlpFeasible(files, o) /\ ev = [op |-> "init", o |-> o]
    /\ ghost = GhostInit
    /\ thr = [t \in Threads |-> [pc |-> "idle", reg |-> 0]]
    /\ inst = NoDownloader
    /\ call = NoCall
    /\ prev = NoPrev

\* ReelsDownloader._download_via_ytdlp(shortcode, target_dir).
DownloadViaYtdlp ==
    /\ ev.op = "init"
    /\ LET r == download_via_ytdlp(files, ev.o)
       IN  /\ files' = r.files
           /\ ev' = [op |-> "download_via_ytdlp", o |-> ev.o, before |-> files,
                     ok |-> r.ok, err |-> r.err, media |-> r.media, thumb |-> r.thumb]
    /\ UNCHANGED <<now, accounts, ghost, thr, inst, call, prev>>

YtdlpNext == DownloadViaYtdlp

SpecYtdlp == YtdlpInit /\ [][YtdlpNext]_vars

NCallers == 2

Callers == 1..NCallers

\* A call of download that is not in its authenticated attempt.
NoAttempt == [pc |-> "idle", selected |-> NoAccount, used |-> {}]

\* The pool and one ReelsDownloader; no call is running.
ShareInit ==
    /\ now = 0
    /\ accounts \in {InstagramAccountManager(l) : l \in AccountLists}
    /\ ev = [op |-> "init"]
    /\ ghost = GhostInit
    /\ thr = [t \in Callers |-> NoAttempt]
    /\ inst = [NoDownloader EXCEPT !.has_auth = has_available_accounts(accounts, now).ret]
    /\ files = {}
    /\ call = NoCall
    /\ prev = NoPrev

\* What a finished attempt leaves: the account selected for it, the accounts
\* whose credentials its yt-dlp options held, and the account its outcome was
\* recorded on.
Attempt(t, marked, outcome) ==
    [op |-> "attempt", selected |-> thr[t].selected, used |-> thr[t].used,
     marked |-> marked, outcome |-> outcome]

\* download(shortcode) is called and finds no existing file: "if self.has_auth".
ShStart(t) ==
    /\ thr[t].pc = "idle"
    /\ Requests(accounts) < MaxRequests
    /\ thr' = [thr EXCEPT ![t] = [NoAttempt EXCEPT !.pc = IF inst.has_auth THEN "select"
                                                         ELSE "proxy"]]
    /\ UNCHANGED <<now, accounts, ev, ghost, inst, files, call, prev>>

\* "self.current_account = account_manager.get_random_account()".
ShSelect(t) ==
    /\ thr[t].pc = "select"
    /\ LET avail == available_accounts(accounts, now)
       IN  /\ accounts' = Swept(accounts, now)
           /\ \/ /\ avail = {}
                 /\ inst' = [inst EXCEPT !.current_account = NoAccount]
                 /\ thr' = [thr EXCEPT ![t].pc = "proxy"]
              \/ \E i \in avail :
                    /\ inst' = [inst EXCEPT !.current_account = accounts[i].username]
                    /\ thr' = [thr EXCEPT ![t].pc = "info",
                                          ![t].selected = accounts[i].username]
    /\ UNCHANGED <<now, ev, ghost, files, call, prev>>

\* The credentials _get_ydl_opts puts into the options: those of
\* self.current_account as it is now, none when it is None.
get_ydl_opts(used, current_account) ==
    IF current_account = NoAccount THEN used \cup {"anonymous"}
    ELSE used \cup {current_account}

\* _extract_info: _get_ydl_opts and extract_info, which returns or raises.
ShExtractInfo(t, ok) ==
    /\ thr[t].pc = "info"
    /\ thr' = [thr EXCEPT ![t].pc = IF ok THEN "media" ELSE "log_failure",
                          ![t].used = get_ydl_opts(@, inst.current_account)]
    /\ UNCHANGED <<now, accounts, ev, ghost, inst, files, call, prev>>

\* _download_media: _get_ydl_opts and ydl.download, which returns or raises.
ShDownloadMedia(t, ok) ==
    /\ thr[t].pc = "media"
    /\ thr' = [thr EXCEPT ![t].pc = IF ok THEN "mark_success" ELSE "log_failure",
                          ![t].used = get_ydl_opts(@, inst.current_account)]
    /\ UNCHANGED <<now, accounts, ev, ghost, inst, files, call, prev>>

\* "account_manager.mark_account_success(self.current_account.username)";
\* with current_account None the AttributeError is caught by the except clause.
ShMarkSuccess(t) ==
    /\ thr[t].pc = "mark_success"
    /\ IF inst.current_account = NoAccount
       THEN /\ thr' = [thr EXCEPT ![t].pc = "log_failure"]
            /\ UNCHANGED <<accounts, ev>>
       ELSE /\ accounts' = mark_account_success(accounts, inst.current_account, now)
            /\ ev' = Attempt(t, inst.current_account, "ok")
            /\ thr' = [thr EXCEPT ![t] = NoAttempt]
    /\ UNCHANGED <<now, ghost, inst, files, call, prev>>

\* The except clause: logger.warning(f"... {self.current_account.username}");
\* with current_account None the AttributeError leaves download.
ShLogFailure(t) ==
    /\ thr[t].pc = "log_failure"
    /\ IF inst.current_account = NoAccount
       THEN /\ ev' = Attempt(t, NoAccount, "AttributeError")
            /\ thr' = [thr EXCEPT ![t] = NoAttempt]
       ELSE /\ thr' = [thr EXCEPT ![t].pc = "mark_failure"]
            /\ UNCHANGED ev
    /\ UNCHANGED <<now, accounts, ghost, inst, files, call, prev>>

\* "account_manager.mark_account_failure(self.current_account.username)".
ShMarkFailure(t) ==
    /\ thr[t].pc = "mark_failure"
    /\ IF inst.current_account = NoAccount
       THEN /\ ev' = Attempt(t, NoAccount, "AttributeError")
            /\ thr' = [thr EXCEPT ![t] = NoAttempt]
            /\ UNCHANGED accounts
       ELSE /\ accounts' = mark_account_failure(accounts, inst.current_account, now)
            /\ ev' = Attempt(t, inst.current_account, "failed")
            /\ thr' = [thr EXCEPT ![t] = [NoAttempt EXCEPT !.pc = "proxy"]]
    /\ UNCHANGED <<now, ghost, inst, files, call, prev>>

\* Strategy 2, which uses no account, and the end of the call.
ShProxy(t) ==
    /\ thr[t].pc = "proxy"
    /\ thr' = [thr EXCEPT ![t] = NoAttempt]
    /\ UNCHANGED <<now, accounts, ev, ghost, inst, files, call, prev>>

ShareNext ==
    \E t \in Callers :
        \/ ShStart(t)
        \/ ShSelect(t)
        \/ \E ok \in BOOLEAN : ShExtractInfo(t, ok)
        \/ \E ok \in BOOLEAN : ShDownloadMedia(t, ok)
        \/ ShMarkSuccess(t)
        \/ ShLogFailure(t)
        \/ ShMarkFailure(t)
        \/ ShProxy(t)

SpecShare == ShareInit /\ [][ShareNext]_vars

\* C20: whatever the interleaving of the calls that share the downloader, the
\* outcome of an authenticated attempt is recorded on the account selected for
\* it, which is the one account whose credentials the attempt used.
C20_OutcomeOnSelectedAccount ==
    ev.op = "attempt" =>
        /\ ev.marked = ev.selected
        /\ ev.used = {ev.selected}


(* --------------------------- later claims ------------------------------ *)

\* The place of a call's position in the order CHECK_EXISTING, PROBE,
\* TRY_AUTHENTICATED, TRY_UNAUTHENTICATED, SUCCESS | FAILED.
PhaseOf(pc) ==
    IF pc = "check_existing" THEN 1
    ELSE IF pc = "probe" THEN 2
    ELSE IF pc \in {"select", "ytdlp", "instaloader"} THEN 3
    ELSE IF pc = "proxy" THEN 4
    ELSE 5

\* C21: a running call moves through CHECK_EXISTING, PROBE, TRY_AUTHENTICATED
\* and TRY_UNAUTHENTICATED only in that order, and its trace holds at most one
\* authenticated attempt and at most one attempt of each proxy sub-method.
C21_PhasesInOrder ==
    /\ [][(call.pc \notin {"idle", "success", "failed"}) =>
             PhaseOf(call'.pc) >= PhaseOf(call.pc)]_vars
    /\ [](\A st \in {"ytdlp", "instaloader", "oembed", "embed", "json"} :
             Cardinality(StepsIn({st})) <= 1)


(* ------------------------ the strategies, one call --------------------- *)

\* The fragments the except clauses of _download_via_ytdlp look for.
Fragments ==
    {"private", "unavailable", "404", "not found", "removed", "429",
     "too many requests", "rate limit", "http error", "unable to extract"}

\* The error texts of one strategy call: none, one or two of the fragments.
StrategyTexts == {t \in SUBSET Fragments : Cardinality(t) <= 2}

\* What yt-dlp can do in one call: raise with any of the texts, or one of
\* the outcomes of the download calls.
StrategyYtdlpOutcomes ==
    {YO(st, x, t, "mp4", FALSE, "h264", FALSE, FALSE, NoFile) :
        st \in {"info", "download"}, x \in {"DownloadError", "other"}, t \in StrategyTexts}
    \cup YtdlpOutcomes

\* What the network can do in one proxy call: each sub-method answers, answers
\* with nothing or raises, and the CDN serves the file, refuses it or breaks.
StrategyProxyOutcomes ==
    {PO(a, b, c, m, mo, d, e) :
        a \in {"data", "none", "raise"}, b \in {"urls", "none", "raise"},
        c \in {"data", "none", "raise"}, m \in MainUrls, mo \in BOOLEAN,
        d \in {"ok", "http_error", "broken"}, e \in {"ok", "http_error"}}

StrategyInstaloaderOutcomes == {o \in InstaloaderOutcomes : o.login = "none"}

\* One strategy is about to be called; the directory and what the library or
\* the network will do are drawn here.
StrategyInit ==
    /\ now = 0
    /\ accounts = InstagramAccountManager(<<>>)
    /\ files \in YtdlpDirs
    /\ \/ \E o \in StrategyYtdlpOutcomes :
            YtdlpFeasible(files, o) /\ ev = [op |-> "init", strategy |-> "ytdlp", o |-> o]
       \/ \E o \in StrategyProxyOutcomes : ev = [op |-> "init", strategy |-> "proxy", o |-> o]
       \/ \E o \in StrategyInstaloaderOutcomes :
            /\ Cardinality(find_media_files(files)) + o.n <= MaxItems
            /\ ev = [op |-> "init", strategy |-> "instaloader", o |-> o]
    /\ ghost = GhostInit
    /\ thr = [t \in Threads |-> [pc |-> "idle", reg |-> 0]]
    /\ inst = NoDownloader
    /\ call = NoCall
    /\ prev = NoPrev

\* ReelsDownloader._download_via_ytdlp(shortcode, target_dir), as its caller
\* sees it.
StrategyYtdlp ==
    /\ ev.op = "init" /\ ev.strategy = "ytdlp"
    /\ LET r == download_via_ytdlp(files, ev.o)
       IN  /\ files' = r.files
           /\ ev' = [op |-> "download_via_ytdlp", o |-> ev.o, before |-> files,
                     ok |-> r.ok, err |-> r.err]
    /\ UNCHANGED <<now, accounts, ghost, thr, inst, call, prev>>

\* ReelsDownloader._download_via_proxy(shortcode, target_dir), as its caller
\* sees it.
StrategyProxy ==
    /\ ev.op = "init" /\ ev.strategy = "proxy"
    /\ LET r == download_via_proxy(files, ev.o)
       IN  /\ files' = r.files
           /\ ev' = [op |-> "download_via_proxy", o |-> ev.o, before |-> files,
                     ok |-> r.ok, err |-> r.err, tried |-> r.tried]
    /\ UNCHANGED <<now, accounts, ghost, thr, inst, call, prev>>

\* InstagramProxyDownloader.get_media_urls(shortcode), as its caller sees it.
StrategyGetMediaUrls ==
    /\ ev.op = "init" /\ ev.strategy = "proxy"
    /\ LET g == get_media_urls(ev.o)
       IN  ev' = [op |-> "get_media_urls", o |-> ev.o, before |-> files,
                  ok |-> g.ok,
                  err |-> IF g.ok THEN NoErr
                          ELSE Err("InstagramAPIError", {"all proxy methods failed"}),
                  tried |-> g.tried, has_urls |-> g.has_urls]
    /\ UNCHANGED <<now, accounts, ghost, thr, inst, files, call, prev>>

\* InstaloaderDownloader.download(shortcode), as its caller sees it.
StrategyInstaloader ==
    /\ ev.op = "init" /\ ev.strategy = "instaloader"
    /\ LET r == instaloader_download(files, ev.o)
       IN  /\ files' = r.files
           /\ ev' = [op |-> "instaloader_download", o |-> ev.o, before |-> files,
                     ok |-> r.ok, err |-> r.err]
    /\ UNCHANGED <<now, accounts, ghost, thr, inst, call, prev>>

StrategyNext ==
    \/ StrategyYtdlp
    \/ StrategyProxy
    \/ StrategyGetMediaUrls
    \/ StrategyInstaloader

SpecStrategy == StrategyInit /\ [][StrategyNext]_vars

\* The errors of the taxonomy (exceptions.py).
TaxonomyErrors ==
    {"PrivateAccountError", "ContentNotFoundError", "RateLimitExceededError",
     "InstagramAPIError", "DownloadFailedError"}

\* C22: every failure of an extraction strategy (proxy with its CDN download,
\* library strategy A, library strategy B) leaves the strategy as one of the
\* taxonomy errors; no raw transport or library exception leaves it.
C22_OnlyTaxonomyErrors ==
    (ev.op \in {"download_via_ytdlp", "download_via_proxy", "instaloader_download"}
     /\ ~ev.ok) => ev.err.kind \in TaxonomyErrors


\* The strategy A call ended with yt-dlp's own DownloadError.
YtdlpRaised ==
    /\ ev.op = "download_via_ytdlp"
    /\ ev.o.stage \in {"info", "download"}
    /\ ev.o.exc = "DownloadError"

\* The first rule of a list of <<fragments, error>> rules that the text matches.
RECURSIVE FirstRule(_, _, _)
FirstRule(rules, text, otherwise) ==
    IF rules = <<>> THEN otherwise
    ELSE IF text \cap rules[1][1] # {} THEN rules[1][2]
    ELSE FirstRule(Tail(rules), text, otherwise)

\* C23 as stated: library strategy A maps every failure text by the first
\* matching rule of: private/unavailable -> PrivateAccountError; 404/removed ->
\* ContentNotFoundError; 429/'too many requests' -> RateLimitExceededError;
\* 'unable to extract'/HTTP error -> InstagramAPIError; else DownloadFailedError.
C23_MapsByStatedRules ==
    YtdlpRaised =>
        ev.err.kind =
            FirstRule(<< <<{"private", "unavailable"}, "PrivateAccountError">>,
                         <<{"404", "removed"}, "ContentNotFoundError">>,
                         <<{"429", "too many requests"}, "RateLimitExceededError">>,
                         <<{"unable to extract", "http error"}, "InstagramAPIError">> >>,
                      ev.o.text, "DownloadFailedError")

\* C23: library strategy A maps the text of a yt-dlp DownloadError by the first
\* matching rule of: private/unavailable -> PrivateAccountError; 404/'not
\* found'/removed -> ContentNotFoundError; 429/'too many requests'/'rate limit'
\* -> RateLimitExceededError; 'unable to extract'/'http error' ->
\* InstagramAPIError; else DownloadFailedError.  Any other exception becomes a
\* DownloadFailedError whatever its text.
C23_MapsByFirstRule ==
    /\ YtdlpRaised =>
        ev.err.kind =
            FirstRule(<< <<{"private", "unavailable"}, "PrivateAccountError">>,
                         <<{"404", "not found", "removed"}, "ContentNotFoundError">>,
                         <<{"429", "too many requests", "rate limit"},
                           "RateLimitExceededError">>,
                         <<{"unable to extract", "http error"}, "InstagramAPIError">> >>,
                      ev.o.text, "DownloadFailedError")
    /\ (ev.op = "download_via_ytdlp" /\ ~ev.ok /\ ~YtdlpRaised) =>
        ev.err.kind = "DownloadFailedError"

\* A text that two rules match was mapped by the first of them.
C23_Witness ==
    /\ YtdlpRaised
    /\ ev.o.text = {"private", "404"}
    /\ ev.err.kind = "PrivateAccountError"


\* The sub-methods of the proxy strategy, in the order of the source.
SubMethods == <<"oembed", "embed", "json">>

\* A sub-method's result that is not an answer: None, or an exception.
Nothing == {"none", "ContentNotFoundError"}

C30_OnlyEmbedSucceeds ==
    (ev.op = "download_via_proxy") =>
        /\ ev.ok => /\ ev.o.oembed # "data"
                    /\ ev.o.embed = "urls"
                    /\ ev.tried[2] = Step("embed", "urls", NoAccount)
        /\ (ev.o.oembed = "data") =>
                /\ ~ev.ok
                /\ ev.err.kind = "DownloadFailedError"
                /\ "no media urls found" \in ev.err.msg
                /\ ev.tried = <<Step("oembed", "data", NoAccount)>>
                /\ files = ev.before

\* oEmbed answered while the embed page would have given the URL of a file the
\* CDN serves, and the proxy download failed.
C30_Witness ==
    /\ ev.op = "download_via_proxy"
    /\ ev.o.oembed = "data"
    /\ ev.o.embed = "urls"
    /\ ev.o.cdn = "ok"
    /\ ~ev.ok
    /\ Len(ev.tried) = 1


(* ------------------------ platform identifiers ------------------------- *)

\* The three literals of the first pattern of YouTubePlatform.extract_identifier
\* (the literal of the second pattern ends with the first of them).
YoutubeIdPrefixes == {S_youtube \o S_watch, S_youtu_be \o S_slash, S_youtube \o S_shorts}

\* One of the literals stands in s at position i with eleven characters of
\* [\w-] after it.
IdMatchAt(s, i) ==
    \E lit \in YoutubeIdPrefixes :
        /\ StartsWithAt(s, i, lit)
        /\ i + Len(lit) + ShortcodeLen - 1 <= Len(s)
        /\ \A k \in 0..(ShortcodeLen - 1) : IsShortcodeChar(s[i + Len(lit) + k])

\* YouTubePlatform.extract_identifier: re.search of the patterns, the group of
\* the leftmost match, or ValueError.
youtube_extract_identifier(url) ==
    IF \E i \in 1..Len(url) : IdMatchAt(url, i)
    THEN LET i == CHOOSE i \in 1..Len(url) :
                      IdMatchAt(url, i) /\ \A j \in 1..(i - 1) : ~IdMatchAt(url, j)
             lit == CHOOSE lit \in YoutubeIdPrefixes : StartsWithAt(url, i, lit)
         IN  [ok |-> TRUE,
              identifier |-> SubSeq(url, i + Len(lit), i + Len(lit) + ShortcodeLen - 1),
              err |-> NoErr]
    ELSE [ok |-> FALSE, identifier |-> <<>>,
          err |-> Err("ValueError", {"Invalid YouTube URL format"})]

\* InstagramPlatform.extract_identifier.
instagram_extract_identifier(url) ==
    LET r == extract_shortcode(url)
    IN  [ok |-> r.ok, identifier |-> r.shortcode, err |-> r.err]

extract_identifier(platform, url) ==
    IF platform = "instagram" THEN instagram_extract_identifier(url)
    ELSE youtube_extract_identifier(url)

\* platform.can_handle(url) and platform.extract_identifier(url) for the URL
\* the caller holds, as UniversalDownloader.detect_platform and the platform's
\* download call them.
ExtractIdentifier(platform) ==
    /\ ev.op = "init"
    /\ ev' = [op |-> "extract_identifier", parts |-> ev.parts, url |-> Render(ev.parts),
              platform |-> platform,
              handles |-> can_handle(platform, Render(ev.parts)),
              detected |-> detect_platform(Render(ev.parts)),
              ret |-> extract_identifier(platform, Render(ev.parts))]
    /\ UNCHANGED <<now, accounts, ghost, thr, inst, files, call, prev>>

PlatformNext == \E k \in 1..Len(Platforms) : ExtractIdentifier(Platforms[k])

SpecPlatform == UrlInit /\ [][PlatformNext]_vars

\* C25: for every URL and every registered platform, can_handle(url) is true
\* only if the platform's extract_identifier(url) returns an identifier; so
\* whenever detect_platform returns a platform, its extract_identifier(url)
\* does not fail.
C25_HandledUrlHasIdentifier ==
    (ev.op = "extract_identifier") =>
        /\ ev.handles => ev.ret.ok
        /\ (ev.detected = ev.platform) => ev.ret.ok


(* ------------------------- later probe claims -------------------------- *)

\* C26: every probe result has item_count >= 1, and item_count is the number
\* of entries of the container whenever the kind is carousel.
C26_ItemCount ==
    (ev.op = "analyze" /\ ev.ret.ok) =>
        /\ ev.ret.analysis.item_count >= 1
        /\ (ev.ret.analysis.media_type = "carousel") =>
                ev.ret.analysis.item_count = ev.resp.info.entries


(* -------------------------- later pool claims -------------------------- *)

BlockOver(acc, t) ==
    /\ acc.failed_requests >= FailureThreshold
    /\ \/ ~acc.is_blocked
       \/ acc.blocked_until # None /\ acc.blocked_until <= t

\* C28: the lazy expiry in is_available() clears is_blocked and blocked_until
\* and leaves failed_requests as it is; so the first mark_failure after a block
\* has expired, with no mark_success in between, blocks the account again for
\* a full hour.
C28_ExpiryKeepsStrikes ==
    [][\A i \in 1..Len(accounts) :
          /\ (ev'.op = "is_available" /\ ev'.changed /\ ev'.user = accounts[i].username) =>
                accounts'[i] = [accounts[i] EXCEPT !.is_blocked = FALSE,
                                                   !.blocked_until = None]
          /\ (ev'.op = "mark_account_failure" /\ ev'.user = accounts[i].username
              /\ BlockOver(accounts[i], now)) =>
                /\ accounts'[i].is_blocked
                /\ accounts'[i].blocked_until = now + Hour
                /\ ~is_available(accounts'[i], now + Hour - 1).ret]_vars

\* The fourth failure in a row came when the block of the third was over, and
\* the account is blocked again for an hour from then.
C28_Witness ==
    /\ ev.op = "mark_account_failure"
    /\ \E i \in 1..Len(accounts) :
          /\ accounts[i].username = ev.user
          /\ ghost[ev.user].streak = FailureThreshold + 1
          /\ ghost[ev.user].third_at + Hour <= now
          /\ accounts[i].failed_requests = FailureThreshold + 1
          /\ accounts[i].is_blocked
          /\ accounts[i].blocked_until = now + Hour


(* ------------------------ later download claims ------------------------ *)

\* C29: a download call that found no existing file, tried its strategies and
\* ended in FAILED leaves no file in the identifier's directory that the
\* existing-file check accepts.
C29_FailedLeavesNothingAccepted ==
    (call.pc = "failed" /\ StepsIn({"ytdlp", "oembed"}) # {}) =>
        ~check_existing_download(files).found


====
